---------------------------- MODULE Spec2Model ----------------------------
(***************************************************************************)
(* A model of the Pascal-subset interpreter: the scoped symbol table, the  *)
(* semantic analyzer (a visitor over the syntax tree that fills the        *)
(* annotation slot of every call node), the call stack of activation       *)
(* records and the tree-walking interpreter.                               *)
(*                                                                         *)
(* Both visitors are recursive in the source.  Here the recursion is made  *)
(* explicit: kont is the stack of pending visits (the native call stack of *)
(* the visitor), and one action is one handler up to its next recursive    *)
(* visit, or the rest of a handler after such a visit returned.  The       *)
(* interpreter's expression handlers return a value and touch no state, so *)
(* they are operators (visit_num, visit_bin_op, visit_unary_op, visit_var).*)
(***************************************************************************)
EXTENDS Integers, Sequences, FiniteSets, TLC

VARIABLES
    mode,           \* "pipeline": analysis then execution; "direct": Interpreter::visit on a given tree
    phase,          \* "analysis" | "execution" | "finished" | "aborted"
    tree,           \* the syntax tree (the analyzer writes the call nodes' proc_symbol)
    kont,           \* pending visits of the running visitor, first = next
    current_scope,  \* SemanticAnalyzer.current_scope
    call_stack,     \* Interpreter.call_stack.records, last = top
    error,          \* "none", or what aborted the run
    hcalls,         \* history: for each active procedure call, the call stack as it was
                    \* on entry (records) and the Procedure symbol called (proc)
    result,         \* the Value the outermost Interpreter::visit returned
    overflow_checks \* whether the build panics on integer overflow (rustc -C overflow-checks:
                    \* on in the dev and test profiles, off in the release profile)

vars == <<mode, phase, tree, kont, current_scope, call_stack, error, hcalls, result,
          overflow_checks>>

-----------------------------------------------------------------------------
(* Bounds of the model *)

\* statements in the body of a generated program
MaxStmts == 2
\* depth of the chain of nested calls in a directly interpreted tree
MaxNest == 2

-----------------------------------------------------------------------------
(* Option::None *)
NoneVal == [kind |-> "None"]

(* tokens.rs: Value::None, the Value the visit of a statement returns; it  *)
(* is a Value as Integer and Float are, and a record can bind a name to it *)
Value_None == [kind |-> "Value::None"]

Min(a, b) == IF a < b THEN a ELSE b

(* String::to_lowercase / to_uppercase, the conversions of Rust's str, on  *)
(* the strings over ASCII, the Latin-1 supplement (U+0080 to U+00FF) and   *)
(* the Greek letters U+0391 to U+03A9 and U+03B1 to U+03C9.  The lexer     *)
(* reads its text a byte at a time and makes a char of each byte, so that  *)
(* the names it yields hold characters up to U+00FF; the Greek letters     *)
(* stand in names of nodes built by hand only.  Not in the tables below:   *)
(* the characters outside these blocks; the grave accent U+0060, which no  *)
(* string of this module can hold; and the capital of U+00FF, which is     *)
(* U+0178 and which no string of this module can hold either, so that      *)
(* to_uppercase is defined on the strings without U+00FF.                  *)

(* the letter of the other case of each letter of `from`, which is at the  *)
(* same place in `to`                                                      *)
LetterMap(from, to) ==
    [c \in {SubSeq(from, j, j) : j \in 1..Len(from)} |->
        LET j == CHOOSE j \in 1..Len(from) : SubSeq(from, j, j) = c IN SubSeq(to, j, j)]

(* char::to_lowercase: the capitals of ASCII, of Latin-1 (U+00C0 to U+00DE *)
(* but the multiplication sign) and of Greek                               *)
LowerOf ==
    LetterMap("ABCDEFGHIJKLMNOPQRSTUVWXYZ" \o "ÀÁÂÃÄÅÆÇÈÉÊËÌÍÎÏÐÑÒÓÔÕÖØÙÚÛÜÝÞ" \o "ΑΒΓΔΕΖΗΘΙΚΛΜΝΞΟΠΡΣΤΥΦΧΨΩ",
              "abcdefghijklmnopqrstuvwxyz" \o "àáâãäåæçèéêëìíîïðñòóôõöøùúûüýþ" \o "αβγδεζηθικλμνξοπρστυφχψω")

(* char::to_uppercase: the small letters of ASCII, of Latin-1 (U+00E0 to   *)
(* U+00FE but the division sign) and of Greek; the final sigma; the micro  *)
(* sign U+00B5, whose capital is the Greek U+039C; the sharp s, whose      *)
(* capital is two letters                                                  *)
UpperOf ==
    LetterMap("abcdefghijklmnopqrstuvwxyz" \o "àáâãäåæçèéêëìíîïðñòóôõöøùúûüýþ" \o "αβγδεζηθικλμνξοπρστυφχψω" \o "ςµ",
              "ABCDEFGHIJKLMNOPQRSTUVWXYZ" \o "ÀÁÂÃÄÅÆÇÈÉÊËÌÍÎÏÐÑÒÓÔÕÖØÙÚÛÜÝÞ" \o "ΑΒΓΔΕΖΗΘΙΚΛΜΝΞΟΠΡΣΤΥΦΧΨΩ" \o "ΣΜ")
    @@ ("ß" :> "SS")

(* s from its i-th character on, with each character that `map` holds      *)
(* replaced by what it gives                                               *)
RECURSIVE MapLetters(_, _, _)
MapLetters(s, i, map) ==
    IF i > Len(s) THEN ""
    ELSE (IF SubSeq(s, i, i) \in DOMAIN map THEN map[SubSeq(s, i, i)]
          ELSE SubSeq(s, i, i))
         \o MapLetters(s, i + 1, map)

(* the characters with the property Cased: the letters of the tables, the  *)
(* ordinal indicators U+00AA and U+00BA, and the small letter U+00FF       *)
Cased == (DOMAIN LowerOf) \cup (DOMAIN UpperOf) \cup {"ª", "º", "ÿ"}

(* the characters with the property Case_Ignorable: U+0027, U+002E,        *)
(* U+003A, U+005E, U+00A8, U+00AD, U+00AF, U+00B4, U+00B7, U+00B8          *)
CaseIgnorable == {"'", ".", ":", "^", "¨", "­", "¯", "´", "·", "¸"}

(* str::to_lowercase, case_ignorable_then_cased: going from the i-th       *)
(* character of s in the direction d, the first character that is not      *)
(* case-ignorable is there and is cased                                    *)
RECURSIVE case_ignorable_then_cased(_, _, _)
case_ignorable_then_cased(s, i, d) ==
    IF i < 1 \/ i > Len(s) THEN FALSE
    ELSE IF SubSeq(s, i, i) \in CaseIgnorable
         THEN case_ignorable_then_cased(s, i + d, d)
    ELSE SubSeq(s, i, i) \in Cased

(* str::to_lowercase, map_uppercase_sigma: the capital sigma at place i is *)
(* the final sigma when a cased letter stands before it and none after it  *)
map_uppercase_sigma(s, i) ==
    IF case_ignorable_then_cased(s, i - 1, -1) /\ ~case_ignorable_then_cased(s, i + 1, 1)
    THEN "ς" ELSE "σ"

(* s from its i-th character on in small letters: the capital sigma by its *)
(* place in s, every other character by the table                          *)
RECURSIVE LowerFrom(_, _)
LowerFrom(s, i) ==
    IF i > Len(s) THEN ""
    ELSE (IF SubSeq(s, i, i) = "Σ" THEN map_uppercase_sigma(s, i)
          ELSE IF SubSeq(s, i, i) \in DOMAIN LowerOf THEN LowerOf[SubSeq(s, i, i)]
          ELSE SubSeq(s, i, i))
         \o LowerFrom(s, i + 1)

to_lowercase(s) == LowerFrom(s, 1)

to_uppercase(s) == MapLetters(s, 1, UpperOf)

-----------------------------------------------------------------------------
(* tokens.rs: Value.  Integer(i32) and Float(f32); a Float is held as the  *)
(* rational num/den in lowest terms (den > 0), or den = 0 for the          *)
(* infinities (num = 1, -1) and NaN (num = 0).  The zero of negative sign  *)
(* is num = 0 with den = -1.                                               *)

IntegerV(n) == [kind |-> "Integer", v |-> n]

Abs(n) == IF n < 0 THEN -n ELSE n

Sign(n) == IF n < 0 THEN -1 ELSE IF n > 0 THEN 1 ELSE 0

RECURSIVE Gcd(_, _)
Gcd(a, b) == IF b = 0 THEN a ELSE Gcd(b, a % b)

RECURSIVE Pow2(_)
Pow2(k) == IF k = 0 THEN 1 ELSE 2 * Pow2(k - 1)

I32Max == 2147483647
I32Min == -I32Max - 1
\* an f32 holds 24 significant bits
MantissaTop == 16777216
\* the greatest finite f32 is (2^24 - 1) * 2^104
F32MaxExp == 104
\* the least positive f32 is 2^-149
F32MinExp == 149

(* the rational num/den (den > 0) in lowest terms *)
Ratio(num, den) ==
    LET g == Gcd(Abs(num), den)
    IN  [kind |-> "Float", num |-> num \div g, den |-> den \div g]

FloatInf(sign) == [kind |-> "Float", num |-> sign, den |-> 0]
FloatNaN == [kind |-> "Float", num |-> 0, den |-> 0]
\* 0.0 and -0.0
FloatZero(sign) == [kind |-> "Float", num |-> 0, den |-> IF sign < 0 THEN -1 ELSE 1]

IsFinite(f) == f.den # 0
IsNaN(f) == f.den = 0 /\ f.num = 0
\* the sign of an f32 that is not NaN: -1 or 1, also for a zero
FSign(f) == IF f.num < 0 \/ (f.num = 0 /\ f.den < 0) THEN -1 ELSE 1

(* the exponent k with 2^23 <= p / (q * 2^k) < 2^24, searched from k *)
RECURSIVE ExpUp(_, _, _)
ExpUp(p, q, k) == IF p \div Pow2(k) < q * MantissaTop THEN k ELSE ExpUp(p, q, k + 1)
RECURSIVE ExpDown(_, _, _)
ExpDown(p, q, k) ==
    IF p * Pow2(k) >= q * (MantissaTop \div 2) THEN k ELSE ExpDown(p, q, k + 1)

(* round to nearest, ties to even, of the quotient n / d *)
RoundHalfEven(n, d) ==
    LET m == n \div d
        r == n % d
    IN  IF 2 * r > d \/ (2 * r = d /\ m % 2 = 1) THEN m + 1 ELSE m

(* the f32 nearest to the positive rational p/q: a value that rounds to    *)
(* 2^128 or more is the infinity, and below 2^-126 the unit in the last    *)
(* place stays 2^-149 (subnormal values), so that a value of at most       *)
(* 2^-150 is 0                                                             *)
RoundF32Pos(p, q) ==
    IF p >= q * (MantissaTop \div 2)
    THEN \* at least 2^23: the unit in the last place is 2^k, k >= 0
         LET k == ExpUp(p, q, 0)
         IN  IF k > F32MaxExp THEN FloatInf(1)
             ELSE LET m == RoundHalfEven(p, q * Pow2(k))
                  IN  IF k = F32MaxExp /\ m = MantissaTop THEN FloatInf(1)
                      ELSE Ratio(m * Pow2(k), 1)
    ELSE \* less than 2^23: the unit in the last place is 2^-k, k >= 1, and
         \* 2^-149 for every value less than 2^-126
         LET k == Min(ExpDown(p, q, 1), F32MinExp)
         IN  Ratio(RoundHalfEven(p * Pow2(k), q), Pow2(k))

(* the f32 nearest to num/den (den > 0): what a Rust f32 operation returns *)
(* for an exact result that is not zero; a result too small for an f32 is  *)
(* the zero of its sign                                                    *)
RoundF32(num, den) ==
    IF num = 0 THEN FloatZero(1)
    ELSE LET g == Gcd(Abs(num), den)
             r == RoundF32Pos(Abs(num) \div g, den \div g)
         IN  IF r.num = 0 /\ r.den # 0 THEN FloatZero(Sign(num))
             ELSE [r EXCEPT !.num = Sign(num) * r.num]

(* `n as f32` for an i32 *)
IntToF32(n) == RoundF32(n, 1)

(* `f as i32` for an f32: truncates toward zero, saturates at the bounds   *)
(* of i32 (the infinities and every finite value beyond them), NaN gives 0 *)
F32ToI32(f) ==
    IF f.den = 0
    THEN IF f.num > 0 THEN I32Max ELSE IF f.num < 0 THEN I32Min ELSE 0
    ELSE LET t == Abs(f.num) \div Abs(f.den)
         IN  IF f.num > 0 THEN (IF t > I32Max THEN I32Max ELSE t)
             ELSE (IF t > I32Max THEN I32Min ELSE -t)

(* f32 +, -, *, / *)
FAdd(x, y) ==
    IF IsNaN(x) \/ IsNaN(y) THEN FloatNaN
    ELSE IF ~IsFinite(x) /\ ~IsFinite(y)
         THEN IF x.num = y.num THEN x ELSE FloatNaN
    ELSE IF ~IsFinite(x) THEN x
    ELSE IF ~IsFinite(y) THEN y
    ELSE IF x.num = 0 /\ y.num = 0
         THEN \* two zeros: -0.0 only when both are -0.0
              FloatZero(IF FSign(x) < 0 /\ FSign(y) < 0 THEN -1 ELSE 1)
    ELSE \* an exact sum of zero is 0.0
         RoundF32(x.num * Abs(y.den) + y.num * Abs(x.den), Abs(x.den) * Abs(y.den))

FNeg(x) ==
    IF IsNaN(x) THEN x
    ELSE IF x.num = 0 THEN FloatZero(-FSign(x))
    ELSE [x EXCEPT !.num = -x.num]

FSub(x, y) == FAdd(x, FNeg(y))

FMul(x, y) ==
    IF IsNaN(x) \/ IsNaN(y) THEN FloatNaN
    ELSE IF ~IsFinite(x) \/ ~IsFinite(y)
         THEN IF x.num = 0 \/ y.num = 0 THEN FloatNaN
              ELSE FloatInf(FSign(x) * FSign(y))
    ELSE IF x.num = 0 \/ y.num = 0 THEN FloatZero(FSign(x) * FSign(y))
    ELSE RoundF32(x.num * y.num, x.den * y.den)

FDiv(x, y) ==
    IF IsNaN(x) \/ IsNaN(y) THEN FloatNaN
    ELSE IF ~IsFinite(x)
         THEN IF ~IsFinite(y) THEN FloatNaN
              ELSE FloatInf(FSign(x) * FSign(y))
    ELSE IF ~IsFinite(y) THEN FloatZero(FSign(x) * FSign(y))
    ELSE IF y.num = 0
         THEN IF x.num = 0 THEN FloatNaN ELSE FloatInf(FSign(x) * FSign(y))
    ELSE IF x.num = 0 THEN FloatZero(FSign(x) * FSign(y))
    ELSE RoundF32(Sign(y.num) * x.num * y.den, Abs(y.num) * x.den)

(* a panic of the running visitor (panic!, unwrap on None, unreachable!,   *)
(* integer division by zero): it is a value of no kind of Value            *)
Panic(why) == [kind |-> "Panic", why |-> why]
IsPanic(v) == v.kind = "Panic"

-----------------------------------------------------------------------------
(* The syntax tree.  A node is a record; k is the variant of Node.         *)

Num(value) == [k |-> "Num", value |-> value]
Var(name) == [k |-> "Var", value |-> name]
BinOp(left, op, right) == [k |-> "BinOp", left |-> left, op |-> op, right |-> right]
UnaryOp(op, expr) == [k |-> "UnaryOp", op |-> op, expr |-> expr]
Assign(name, right) == [k |-> "Assign", left |-> Var(name), right |-> right]
Compound(children) == [k |-> "Compound", children |-> children]
NoOp == [k |-> "NoOp"]
Type(name) == [k |-> "Type", value |-> name]
VarDecl(name, type) == [k |-> "VarDecl", var_node |-> Var(name), type_node |-> Type(type)]
Param(name, type) == [var_node |-> Var(name), type_node |-> Type(type)]
Block(declarations, statements) ==
    [k |-> "Block", declarations |-> declarations,
     compound_statement |-> Compound(statements)]
ProcedureDecl(name, params, block) ==
    [k |-> "ProcedureDecl", proc_name |-> name, formal_params |-> params,
     block_node |-> block]
\* a call node before the analysis: the annotation slot is empty
ProcedureCall(name, args) ==
    [k |-> "ProcedureCall", proc_name |-> name, actual_params |-> args,
     proc_symbol |-> NoneVal]
Program(name, block) == [k |-> "Program", name |-> name, block |-> block]

(* A place in the tree: the fields to follow from the root, each with the  *)
(* index in the field's list (0: the field is a node, not a list).         *)
Step(f, i) == [f |-> f, i |-> i]

RECURSIVE NodeAt(_, _)
NodeAt(n, path) ==
    IF path = <<>> THEN n
    ELSE LET st == Head(path)
         IN  IF st.i = 0 THEN NodeAt(n[st.f], Tail(path))
             ELSE NodeAt(n[st.f][st.i], Tail(path))

RECURSIVE WithNodeAt(_, _, _)
WithNodeAt(n, path, new) ==
    IF path = <<>> THEN new
    ELSE LET st == Head(path)
         IN  IF st.i = 0
             THEN [n EXCEPT ![st.f] = WithNodeAt(n[st.f], Tail(path), new)]
             ELSE [n EXCEPT ![st.f][st.i] = WithNodeAt(n[st.f][st.i], Tail(path), new)]

-----------------------------------------------------------------------------
(* symbols.rs: Symbol, SymbolTable *)

BuiltinSymbol(name) == [kind |-> "Builtin", name |-> name]
VarSymbol(name, type) == [kind |-> "Var", name |-> name, type_ |-> type]
ProcedureSymbol(name, formal_params, block_ast) ==
    [kind |-> "Procedure", name |-> name, formal_params |-> formal_params,
     block_ast |-> block_ast]

(* SymbolTable::insert: HashMap::insert under the symbol's name, replacing *)
(* an entry of that name                                                   *)
insert(table, symbol) ==
    [table EXCEPT !.symbols =
        [n \in (DOMAIN table.symbols) \cup {symbol.name} |->
            IF n = symbol.name THEN symbol ELSE table.symbols[n]]]

init_builtins(table) ==
    insert(insert(table, BuiltinSymbol("INTEGER")), BuiltinSymbol("REAL"))

EmptySymbols == [n \in {} |-> NoneVal]

SymbolTable_new(scope_name, scope_level, enclosing_scope) ==
    init_builtins([symbols |-> EmptySymbols, scope_level |-> scope_level,
                   scope_name |-> scope_name, enclosing_scope |-> enclosing_scope])

(* a lookup that never leaves the current table *)
lookup_CurrentTableOnly(table, name, current_scope_only) ==
    IF name \in DOMAIN table.symbols THEN table.symbols[name] ELSE NoneVal

(* SymbolTable::lookup: the current table, then, unless current_scope_only, *)
(* the enclosing tables, nearest first                                      *)
RECURSIVE lookup(_, _, _)
lookup(table, name, current_scope_only) ==
    IF name \in DOMAIN table.symbols THEN table.symbols[name]
    ELSE IF current_scope_only THEN NoneVal
    ELSE IF table.enclosing_scope = NoneVal THEN NoneVal
    ELSE lookup(table.enclosing_scope, name, FALSE)

-----------------------------------------------------------------------------
(* symbols.rs: ActivationRecord, CallStack *)

EmptyMembers == [n \in {} |-> NoneVal]

ActivationRecord_new(name, type, nesting_level) ==
    [name |-> name, type_ |-> type, nesting_level |-> nesting_level,
     members |-> EmptyMembers]

(* ActivationRecord::set *)
ar_set(ar, key, value) ==
    [ar EXCEPT !.members =
        [n \in (DOMAIN ar.members) \cup {key} |->
            IF n = key THEN value ELSE ar.members[n]]]

(* ActivationRecord::get *)
ar_get(ar, key) == IF key \in DOMAIN ar.members THEN ar.members[key] ELSE NoneVal

(* a pop that removes the oldest record *)
pop_Oldest(records) == IF records = <<>> THEN records ELSE Tail(records)

(* CallStack::push, pop (the stack it leaves), peek *)
push(records, ar) == Append(records, ar)
pop(records) == IF records = <<>> THEN records ELSE SubSeq(records, 1, Len(records) - 1)
peek(records) == IF records = <<>> THEN NoneVal ELSE records[Len(records)]

-----------------------------------------------------------------------------
(* interpreter.rs: visit_bin_op and visit_unary_op on the Values of their  *)
(* operands, and visit_var on the call stack: the Value returned, or the   *)
(* panic.                                                                  *)

(* i32 / i32: truncates toward zero; panics on a zero divisor and on       *)
(* i32::MIN / -1                                                           *)
(* a division that yields 0 for a zero divisor *)
I32Div_NoTrap(a, b) ==
    IntegerV(IF b = 0 THEN 0 ELSE Sign(a) * Sign(b) * (Abs(a) \div Abs(b)))

I32Div(a, b) ==
    IF b = 0 THEN Panic("attempt to divide by zero")
    ELSE IF a = I32Min /\ b = -1 THEN Panic("attempt to divide with overflow")
    ELSE LET d == Abs(b)
             q == a \div d
             t == IF a < 0 /\ a % d # 0 THEN q + 1 ELSE q
         IN  IntegerV(Sign(b) * t)

(* the operand of visit_bin_op as f32: `l as f32` of an Integer, the f32   *)
(* of a Float, panic!() of anything else                                   *)
OperandAsF32(v) ==
    CASE v.kind = "Integer" -> IntToF32(v.v)
      [] v.kind = "Float" -> v
      [] OTHER -> Panic("panic!()")

(* the match on bin_op.op.type_: the f32 result *)
ApplyBinOp(op, left, right) ==
    CASE op = "Plus" -> FAdd(left, right)
      [] op = "Minus" -> FSub(left, right)
      [] op = "Mul" -> FMul(left, right)
      [] op = "IntegerDiv" ->
            LET q == I32Div(F32ToI32(left), F32ToI32(right))
            IN  IF IsPanic(q) THEN q ELSE IntToF32(q.v)
      [] op = "FloatDiv" -> FDiv(left, right)
      [] OTHER -> Panic("panic!()")

(* Interpreter::visit_bin_op on the operands' values *)
BinOpValue(op, lv, rv) ==
    LET float == lv.kind = "Float" \/ rv.kind = "Float"
        left == OperandAsF32(lv)
        right == OperandAsF32(rv)
    IN  IF IsPanic(lv) THEN lv
        ELSE IF IsPanic(left) THEN left
        ELSE IF IsPanic(rv) THEN rv
        ELSE IF IsPanic(right) THEN right
        ELSE LET res == ApplyBinOp(op, left, right)
             IN  IF IsPanic(res) THEN res
                 ELSE IF float THEN res
                 ELSE IntegerV(F32ToI32(res))

(* a visit_unary_op that returns its operand under either sign *)
UnaryOpValue_NoNegate(op, v) == v

(* Interpreter::visit_unary_op on the operand's value *)
UnaryOpValue(op, v) ==
    CASE IsPanic(v) -> v
      [] v.kind = "Float" ->
            (CASE op = "Plus" -> FAdd(Ratio(0, 1), v)
               [] op = "Minus" -> FSub(Ratio(0, 1), v)
               [] OTHER -> Panic("unimplemented!()"))
      [] v.kind = "Integer" ->
            (CASE op = "Plus" -> v
               [] op = "Minus" ->
                     IF v.v = I32Min
                     THEN IF overflow_checks
                          THEN Panic("attempt to subtract with overflow")
                          ELSE v
                     ELSE IntegerV(0 - v.v)
               [] OTHER -> Panic("unimplemented!()"))
      [] OTHER -> Panic("Error")

(* the key visit_var reads: the lower-cased name *)
VarReadKey(name) == to_lowercase(name)

(* a read that walks down the call stack to the nearest record that binds *)
(* the name                                                                *)
RECURSIVE Interpreter_visit_var_Walk(_, _)
Interpreter_visit_var_Walk(var, records) ==
    IF records = <<>> THEN Panic("unwrap on None: get")
    ELSE LET v == ar_get(records[Len(records)], VarReadKey(var.value))
         IN  IF v = NoneVal
             THEN Interpreter_visit_var_Walk(var, SubSeq(records, 1, Len(records) - 1))
             ELSE v

(* Interpreter::visit_var: the top record's binding of the name *)
Interpreter_visit_var(var, records) ==
    IF peek(records) = NoneVal THEN Panic("unwrap on None: peek")
    ELSE LET v == ar_get(peek(records), VarReadKey(var.value))
         IN  IF v = NoneVal THEN Panic("unwrap on None: get") ELSE v

-----------------------------------------------------------------------------
(* The pending visits.  A visit of the analyzer names the node by its      *)
(* place in tree, which it may write; a visit of the interpreter holds the *)
(* node itself (a procedure body is the copy held by the call's symbol).   *)

AVisit(path) == [v |-> "visit", path |-> path]
IVisit(node) == [v |-> "visit", node |-> node]
Rest(v) == [v |-> v]

(* the visits of the nodes of a list field, in order *)
AVisitEach(path, f, n) == [i \in 1..n |-> AVisit(path \o <<Step(f, i)>>)]
IVisitEach(nodes) == [i \in 1..Len(nodes) |-> IVisit(nodes[i])]

(* error.rs: ErrorCode, as SemanticAnalyzer::error names it *)
IDNotFound == "IDNotFound"
DuplicateID == "DuplicateID"
WrongParamsNum == "WrongParamsNum"

(* an error that is recorded while the visit goes on with what is left *)
Throw_AndGoOn(code) ==
    /\ error' = code
    /\ kont' = Tail(kont)
    /\ UNCHANGED <<mode, phase, tree, current_scope, call_stack, hcalls, result,
                   overflow_checks>>

(* SemanticError::throw, and every other panic: the run ends where it is,  *)
(* nothing is unwound                                                      *)
Throw(code) ==
    /\ phase' = "aborted"
    /\ error' = code
    /\ UNCHANGED <<mode, tree, kont, current_scope, call_stack, hcalls, result,
                   overflow_checks>>

-----------------------------------------------------------------------------
(* semantic_analyzer.rs *)

AVisiting(kind) ==
    /\ phase = "analysis"
    /\ kont # <<>>
    /\ Head(kont).v = "visit"
    /\ NodeAt(tree, Head(kont).path).k = kind

AResting(v) ==
    /\ phase = "analysis"
    /\ kont # <<>>
    /\ Head(kont).v = v

AContinue(visits) ==
    /\ kont' = visits \o Tail(kont)
    /\ UNCHANGED <<mode, phase, tree, call_stack, error, hcalls, result, overflow_checks>>

(* visit_num, visit_type: nothing *)
SA_visit_num ==
    /\ AVisiting("Num")
    /\ AContinue(<<>>)
    /\ UNCHANGED current_scope

(* the visits visit_unary_op makes: it returns without visiting its operand *)
UnaryOpVisits(path) == <<>>

SA_visit_unary_op ==
    /\ AVisiting("UnaryOp")
    /\ AContinue(UnaryOpVisits(Head(kont).path))
    /\ UNCHANGED current_scope

(* visit_bin_op: the left operand, then the right *)
SA_visit_bin_op ==
    /\ AVisiting("BinOp")
    /\ AContinue(<<AVisit(Head(kont).path \o <<Step("left", 0)>>),
                   AVisit(Head(kont).path \o <<Step("right", 0)>>)>>)
    /\ UNCHANGED current_scope

(* visit_compound: every child in order *)
SA_visit_compound ==
    /\ AVisiting("Compound")
    /\ LET path == Head(kont).path
       IN  AContinue(AVisitEach(path, "children", Len(NodeAt(tree, path).children)))
    /\ UNCHANGED current_scope

(* NodeVisitor::visit on Node::NoOp *)
SA_visit_noop ==
    /\ AVisiting("NoOp")
    /\ AContinue(<<>>)
    /\ UNCHANGED current_scope

(* visit_assign: the right-hand side, then visit_var on the left *)
SA_visit_assign ==
    /\ AVisiting("Assign")
    /\ AContinue(<<AVisit(Head(kont).path \o <<Step("right", 0)>>),
                   AVisit(Head(kont).path \o <<Step("left", 0)>>)>>)
    /\ UNCHANGED current_scope

(* visit_var: a lookup through the whole chain *)
SA_visit_var ==
    /\ AVisiting("Var")
    /\ LET var == NodeAt(tree, Head(kont).path)
       IN  IF lookup(current_scope, var.value, FALSE) = NoneVal
           THEN Throw(IDNotFound)
           ELSE AContinue(<<>>) /\ UNCHANGED current_scope

(* visit_program: a fresh global table, the block, then the table's        *)
(* enclosing scope becomes the current one                                 *)
SA_visit_program ==
    /\ AVisiting("Program")
    /\ current_scope' = SymbolTable_new("global", 1, NoneVal)
    /\ AContinue(<<AVisit(Head(kont).path \o <<Step("block", 0)>>),
                   Rest("leave_program")>>)

(* the scope that is current once visit_program or visit_procedure_decl    *)
(* has left scope `table`; visit_program puts a table of level 0 where     *)
(* there is no enclosing scope, visit_procedure_decl unwraps               *)
Enclosing(table) ==
    IF table.enclosing_scope = NoneVal THEN SymbolTable_new("", 0, NoneVal)
    ELSE table.enclosing_scope

SA_leave_program ==
    /\ AResting("leave_program")
    /\ current_scope' = Enclosing(current_scope)
    /\ AContinue(<<>>)

(* visit_block: the declarations in order, then the compound statement *)
SA_visit_block ==
    /\ AVisiting("Block")
    /\ LET path == Head(kont).path
       IN  AContinue(AVisitEach(path, "declarations", Len(NodeAt(tree, path).declarations))
                     \o <<AVisit(path \o <<Step("compound_statement", 0)>>)>>)
    /\ UNCHANGED current_scope

(* a duplicate check that searched the enclosing scopes as well *)
IsDuplicate_FullChain(table, name) == lookup(table, name, FALSE) # NoneVal

(* the duplicate check of visit_var_decl: the current table only *)
IsDuplicate(table, name) == lookup(table, name, TRUE) # NoneVal

(* visit_var_decl *)
SA_visit_var_decl ==
    /\ AVisiting("VarDecl")
    /\ LET decl == NodeAt(tree, Head(kont).path)
           var_name == decl.var_node.value
           type == lookup(current_scope, to_uppercase(decl.type_node.value), FALSE)
       IN  IF IsDuplicate(current_scope, var_name) THEN Throw(DuplicateID)
           ELSE IF type = NoneVal THEN Throw("unwrap on None: type")
           ELSE /\ current_scope' = insert(current_scope, VarSymbol(var_name, type))
                /\ AContinue(<<>>)

(* the loop over formal_params of visit_procedure_decl: the table with     *)
(* every parameter inserted, and the symbols pushed on formal_params.  The *)
(* loop ends at the first parameter whose type the lookup does not find:   *)
(* the unwrap panics there, with the parameters before it inserted         *)
RECURSIVE InsertParams(_, _)
InsertParams(table, params) ==
    IF params = <<>> THEN table
    ELSE LET param == Head(params)
             type == lookup(table, to_uppercase(param.type_node.value), FALSE)
         IN  IF type = NoneVal THEN table
             ELSE InsertParams(insert(table, VarSymbol(param.var_node.value, type)),
                               Tail(params))

RECURSIVE ParamSymbols(_, _)
ParamSymbols(table, params) ==
    IF params = <<>> THEN <<>>
    ELSE LET param == Head(params)
             type == lookup(table, to_uppercase(param.type_node.value), FALSE)
             symbol == VarSymbol(param.var_node.value, type)
         IN  <<symbol>> \o ParamSymbols(insert(table, symbol), Tail(params))

(* the block a Procedure symbol holds: block_node.clone(), taken when the  *)
(* symbol is built, before visit_block visits block_node                   *)
BlockAst(block_node) == block_node

(* visit_procedure_decl up to visit_block: the new scope, the parameters,  *)
(* the Procedure symbol inserted in the enclosing scope.  current_scope is *)
(* replaced before the loop over the parameters, so a panic of the loop    *)
(* leaves the new table current, with the parameters inserted so far and   *)
(* the enclosing scope without the Procedure symbol                        *)
SA_visit_procedure_decl ==
    /\ AVisiting("ProcedureDecl")
    /\ LET path == Head(kont).path
           decl == NodeAt(tree, path)
           level == current_scope.scope_level + 1
           fresh == SymbolTable_new(decl.proc_name, level, current_scope)
           proc_symbol == ProcedureSymbol(decl.proc_name,
                                          ParamSymbols(fresh, decl.formal_params),
                                          BlockAst(decl.block_node))
           scope == InsertParams(fresh, decl.formal_params)
       IN  IF \E i \in 1..Len(proc_symbol.formal_params) :
                  proc_symbol.formal_params[i].type_ = NoneVal
           THEN /\ phase' = "aborted"
                /\ error' = "unwrap on None: type"
                /\ current_scope' = scope
                /\ UNCHANGED <<mode, tree, kont, call_stack, hcalls, result,
                               overflow_checks>>
           ELSE /\ current_scope' =
                      [scope EXCEPT !.enclosing_scope = insert(@, proc_symbol)]
                /\ AContinue(<<AVisit(path \o <<Step("block_node", 0)>>),
                               Rest("leave_procedure")>>)

(* the rest of visit_procedure_decl: the enclosing scope is current again. *)
(* The unwrap panics when the current table has no enclosing scope, which  *)
(* is so once a Program node inside the body has been left                 *)
SA_leave_procedure ==
    /\ AResting("leave_procedure")
    /\ IF current_scope.enclosing_scope = NoneVal
       THEN Throw("unwrap on None: enclosing_scope")
       ELSE /\ current_scope' = current_scope.enclosing_scope
            /\ AContinue(<<>>)

(* the lookup by which visit_procedure_call finds the callee: the current  *)
(* table only                                                              *)
Callee(table, name) == lookup(table, name, TRUE)

(* a count check that only notices missing arguments *)
WrongCount_TooFewOnly(formal_params, actual_params) ==
    Len(formal_params) > Len(actual_params)

(* proc.formal_params.len() != procedure_call.actual_params.len() *)
WrongCount(formal_params, actual_params) ==
    Len(formal_params) # Len(actual_params)

(* visit_procedure_call up to the visits of the arguments *)
SA_visit_procedure_call ==
    /\ AVisiting("ProcedureCall")
    /\ LET path == Head(kont).path
           call == NodeAt(tree, path)
           proc == Callee(current_scope, call.proc_name)
       IN  IF proc.kind # "Procedure" THEN Throw(IDNotFound)
           ELSE IF WrongCount(proc.formal_params, call.actual_params)
                THEN Throw(WrongParamsNum)
           ELSE /\ AContinue(AVisitEach(path, "actual_params", Len(call.actual_params))
                             \o <<[v |-> "annotate", path |-> path]>>)
                /\ UNCHANGED current_scope

(* the rest of visit_procedure_call: the symbol of a lookup through the    *)
(* whole chain is copied into the node's slot                              *)
SA_annotate_call ==
    /\ AResting("annotate")
    /\ LET path == Head(kont).path
           call == NodeAt(tree, path)
           s == lookup(current_scope, call.proc_name, FALSE)
       IN  IF s.kind # "Procedure" THEN Throw("panic!()")
           ELSE /\ tree' = WithNodeAt(tree, path \o <<Step("proc_symbol", 0)>>, s)
                /\ kont' = Tail(kont)
                /\ UNCHANGED <<mode, phase, current_scope, call_stack, error, hcalls,
                               result, overflow_checks>>

-----------------------------------------------------------------------------
(* interpreter.rs: the handlers of the statement and declaration nodes *)

IVisiting(kind) ==
    /\ phase = "execution"
    /\ kont # <<>>
    /\ Head(kont).v = "visit"
    /\ Head(kont).node.k = kind

IResting(v) ==
    /\ phase = "execution"
    /\ kont # <<>>
    /\ Head(kont).v = v

IContinue(visits) ==
    /\ kont' = visits \o Tail(kont)
    /\ UNCHANGED <<mode, phase, tree, current_scope, error, result, overflow_checks>>

(* Interpreter::visit and the handlers it dispatches to, each as the Value *)
(* it returns (or the panic that ends it), the call stack it leaves and    *)
(* the calls then in progress.  Every variant of Node can be the operand   *)
(* of an expression, the right-hand side of an assignment or an argument.  *)

After(value, records, calls) == [value |-> value, records |-> records, calls |-> calls]

(* the call stack visit_program leaves: self.call_stack.pop() *)
ProgramExit(records) == pop(records)

(* the bindings visit_var_decl gives a record: none *)
DeclareVar(records, decl) == records

(* the key visit_assign writes: the name as written *)
AssignKey(name) == name

(* a set in the bottom record instead of the top one *)
SetInBottom(records, key, value) ==
    [records EXCEPT ![1] = ar_set(@, key, value)]

(* call_stack.peek().unwrap().set(key, value) *)
SetInTop(records, key, value) ==
    [records EXCEPT ![Len(records)] = ar_set(@, key, value)]

(* a visit_procedure_call that returned without the pop *)
ProcedureExit_NoPop(records) == records

(* the call stack visit_procedure_call leaves: self.call_stack.pop() *)
ProcedureExit(records) == pop(records)

RECURSIVE Interpreter_visit(_, _, _)

(* the loops of visit_compound and visit_block: the nodes in order, each   *)
(* on the call stack the one before it left                                *)
RECURSIVE VisitEach(_, _, _)
VisitEach(nodes, records, calls) ==
    IF nodes = <<>> THEN After(Value_None, records, calls)
    ELSE LET first == Interpreter_visit(Head(nodes), records, calls)
         IN  IF IsPanic(first.value) THEN first
             ELSE VisitEach(Tail(nodes), first.records, first.calls)

(* visit_bin_op: the left operand is visited and matched, then the right   *)
(* one, on the call stack the left one left                                *)
Interpreter_visit_bin_op(bin_op, records, calls) ==
    LET left == Interpreter_visit(bin_op.left, records, calls)
        right == Interpreter_visit(bin_op.right, left.records, left.calls)
        value == BinOpValue(bin_op.op, left.value, right.value)
    IN  IF IsPanic(left.value) \/ IsPanic(OperandAsF32(left.value))
        THEN After(value, left.records, left.calls)
        ELSE After(value, right.records, right.calls)

(* visit_assign: the right-hand side is visited, then its value is set in  *)
(* the top record                                                          *)
Interpreter_visit_assign(assign, records, calls) ==
    LET right == Interpreter_visit(assign.right, records, calls)
    IN  IF IsPanic(right.value) THEN right
        ELSE IF right.records = <<>>
             THEN After(Panic("unwrap on None: peek"), right.records, right.calls)
        ELSE After(Value_None,
                   SetInTop(right.records, AssignKey(assign.left.value), right.value),
                   right.calls)

(* the loop of visit_procedure_call over formal_params zipped with         *)
(* actual_params: each argument is visited on the call stack before the    *)
(* push, as the argument before it left it, and its value is set under the *)
(* parameter's name in the new record ar; a panic of an argument ends the  *)
(* loop.  BindParam is one turn of the loop, the argument visited.         *)
RECURSIVE BindParams(_, _, _, _, _)
BindParam(ar, formal_params, actual_params, arg) ==
    IF IsPanic(arg.value)
    THEN [ar |-> ar, value |-> arg.value, records |-> arg.records, calls |-> arg.calls]
    ELSE BindParams(ar_set(ar, Head(formal_params).name, arg.value),
                    Tail(formal_params), Tail(actual_params), arg.records, arg.calls)

BindParams(ar, formal_params, actual_params, records, calls) ==
    IF formal_params = <<>> \/ actual_params = <<>>
    THEN [ar |-> ar, value |-> Value_None, records |-> records, calls |-> calls]
    ELSE BindParam(ar, formal_params, actual_params,
                   Interpreter_visit(Head(actual_params), records, calls))

(* visit_procedure_call from the push to visit_block: the record with the  *)
(* arguments bound is pushed, the body is unwrapped                        *)
PushBound(proc, bound) ==
    IF IsPanic(bound.value) THEN After(bound.value, bound.records, bound.calls)
    ELSE IF proc.block_ast = NoneVal
         THEN After(Panic("unwrap on None: block_ast"),
                    push(bound.records, bound.ar), bound.calls)
    ELSE After(Value_None, push(bound.records, bound.ar),
               Append(bound.calls, [records |-> bound.records, proc |-> proc]))

(* visit_procedure_call up to visit_block: the symbol is unwrapped, the    *)
(* arguments are bound in a new record, the record is pushed               *)
EnterProcedure(call, records, calls) ==
    IF call.proc_symbol = NoneVal
    THEN After(Panic("unwrap on None: proc_symbol"), records, calls)
    ELSE PushBound(call.proc_symbol,
                   BindParams(ActivationRecord_new(call.proc_name, "Procedure", 2),
                              call.proc_symbol.formal_params, call.actual_params,
                              records, calls))

(* visit_procedure_call: the body is visited on the new record, which is   *)
(* popped after it                                                         *)
Interpreter_visit_procedure_call(call, records, calls) ==
    LET entered == EnterProcedure(call, records, calls)
        body == Interpreter_visit(call.proc_symbol.block_ast, entered.records,
                                  entered.calls)
    IN  IF IsPanic(entered.value) THEN entered
        ELSE IF IsPanic(body.value) THEN body
        ELSE After(Value_None, ProcedureExit(body.records),
                   SubSeq(body.calls, 1, Len(body.calls) - 1))

(* visit_program: the Program record is pushed, the block is visited, the  *)
(* record is popped                                                        *)
Interpreter_visit_program(program, records, calls) ==
    LET block == Interpreter_visit(program.block,
                     push(records, ActivationRecord_new(program.name, "Program", 1)),
                     calls)
    IN  IF IsPanic(block.value) THEN block
        ELSE After(Value_None, ProgramExit(block.records), block.calls)

(* NodeVisitor::visit, the match on the variant of the node *)
Interpreter_visit(node, records, calls) ==
    CASE node.k = "BinOp" -> Interpreter_visit_bin_op(node, records, calls)
      [] node.k = "UnaryOp" ->
            LET expr == Interpreter_visit(node.expr, records, calls)
            IN  After(UnaryOpValue(node.op, expr.value), expr.records, expr.calls)
      [] node.k = "Num" -> After(node.value, records, calls)
      [] node.k = "Compound" -> VisitEach(node.children, records, calls)
      [] node.k = "NoOp" -> After(Value_None, records, calls)
      [] node.k = "Assign" -> Interpreter_visit_assign(node, records, calls)
      [] node.k = "Var" -> After(Interpreter_visit_var(node, records), records, calls)
      [] node.k = "Program" -> Interpreter_visit_program(node, records, calls)
      [] node.k = "VarDecl" -> After(Value_None, DeclareVar(records, node), calls)
      [] node.k = "ProcedureDecl" -> After(Value_None, records, calls)
      [] node.k = "ProcedureCall" -> Interpreter_visit_procedure_call(node, records, calls)
      [] node.k = "Block" ->
            VisitEach(node.declarations \o <<node.compound_statement>>, records, calls)

(* the Value a visit of the node on the call stack returns, or its panic *)
ValueOf(node, records) == Interpreter_visit(node, records, <<>>).value

(* a panic inside a visit: the run ends there, with the call stack as the  *)
(* visit has left it; nothing is unwound                                   *)
Panics(after) ==
    /\ phase' = "aborted"
    /\ error' = after.value.why
    /\ call_stack' = after.records
    /\ hcalls' = after.calls
    /\ UNCHANGED <<mode, tree, kont, current_scope, result, overflow_checks>>

(* visit_program up to visit_block: the Program record is pushed *)
I_visit_program ==
    /\ IVisiting("Program")
    /\ LET program == Head(kont).node
       IN  /\ call_stack' =
                 push(call_stack, ActivationRecord_new(program.name, "Program", 1))
           /\ IContinue(<<IVisit(program.block), Rest("exit_program")>>)
    /\ UNCHANGED hcalls

(* the rest of visit_program *)
I_exit_program ==
    /\ IResting("exit_program")
    /\ call_stack' = ProgramExit(call_stack)
    /\ IContinue(<<>>)
    /\ UNCHANGED hcalls

(* visit_block: the declarations in order, then the compound statement *)
I_visit_block ==
    /\ IVisiting("Block")
    /\ LET block == Head(kont).node
       IN  IContinue(IVisitEach(block.declarations)
                     \o <<IVisit(block.compound_statement)>>)
    /\ UNCHANGED <<call_stack, hcalls>>

(* visit_var_decl *)
I_visit_var_decl ==
    /\ IVisiting("VarDecl")
    /\ call_stack' = DeclareVar(call_stack, Head(kont).node)
    /\ IContinue(<<>>)
    /\ UNCHANGED hcalls

(* visit_procedure_decl: nothing *)
I_visit_procedure_decl ==
    /\ IVisiting("ProcedureDecl")
    /\ IContinue(<<>>)
    /\ UNCHANGED <<call_stack, hcalls>>

(* visit_compound: every child in order *)
I_visit_compound ==
    /\ IVisiting("Compound")
    /\ IContinue(IVisitEach(Head(kont).node.children))
    /\ UNCHANGED <<call_stack, hcalls>>

(* NodeVisitor::visit on Node::NoOp *)
I_visit_noop ==
    /\ IVisiting("NoOp")
    /\ IContinue(<<>>)
    /\ UNCHANGED <<call_stack, hcalls>>

(* the visit at the head of kont has returned or panicked: the run goes   *)
(* on with the visits it leaves to do, or ends                             *)
Leaves(after, visits) ==
    IF IsPanic(after.value) THEN Panics(after)
    ELSE /\ call_stack' = after.records
         /\ hcalls' = after.calls
         /\ IContinue(visits)

(* visit_assign *)
I_visit_assign ==
    /\ IVisiting("Assign")
    /\ Leaves(Interpreter_visit(Head(kont).node, call_stack, hcalls), <<>>)

(* visit_procedure_call up to visit_block *)
I_visit_procedure_call ==
    /\ IVisiting("ProcedureCall")
    /\ Leaves(EnterProcedure(Head(kont).node, call_stack, hcalls),
              <<IVisit(Head(kont).node.proc_symbol.block_ast), Rest("exit_procedure")>>)

(* the rest of visit_procedure_call *)
I_exit_procedure ==
    /\ IResting("exit_procedure")
    /\ call_stack' = ProcedureExit(call_stack)
    /\ hcalls' = SubSeq(hcalls, 1, Len(hcalls) - 1)
    /\ IContinue(<<>>)

IsExpression(node) == node.k \in {"Num", "BinOp", "UnaryOp", "Var"}

(* the Value visit returns is the result when the visit is the outermost  *)
(* one; visit_compound, visit_block and visit_program drop the Value of a  *)
(* child                                                                   *)
Returns(after) ==
    IF IsPanic(after.value) THEN Panics(after)
    ELSE /\ result' = IF IsExpression(tree) THEN after.value ELSE result
         /\ call_stack' = after.records
         /\ hcalls' = after.calls
         /\ kont' = Tail(kont)
         /\ UNCHANGED <<mode, phase, tree, current_scope, error, overflow_checks>>

(* visit_num, visit_bin_op, visit_unary_op, visit_var on the node at the   *)
(* head of kont: the visit returns its Value, or panics                    *)
I_visit_expression ==
    /\ phase = "execution"
    /\ kont # <<>>
    /\ Head(kont).v = "visit"
    /\ IsExpression(Head(kont).node)
    /\ Returns(Interpreter_visit(Head(kont).node, call_stack, hcalls))

-----------------------------------------------------------------------------
(* The programs the model runs, as syntax trees: the trees the parser      *)
(* builds for the programs without call statements, and trees with         *)
(* ProcedureCall nodes, which no text yields (see below).                  *)

Int5 == Num(IntegerV(5))
Int7 == Num(IntegerV(7))
Real2_5 == Num(Ratio(5, 2))

(* the sequences over S of 1 to n elements *)
SeqsUpTo(S, n) == UNION {[1..k -> S] : k \in 1..n}

(* PROGRAM Main; VAR ...; BEGIN s1; ... END.  without procedures *)
FlatDecls ==
    { <<>>,
      <<VarDecl("a", "INTEGER")>>,
      <<VarDecl("a", "INTEGER"), VarDecl("b", "REAL")>>,
      <<VarDecl("a", "INTEGER"), VarDecl("a", "REAL")>> }

FlatStmts ==
    { Assign("a", Int5),
      Assign("b", Real2_5),
      Assign("b", Var("a")),
      Assign("a", UnaryOp("Minus", Var("b"))),
      Assign("a", BinOp(Var("a"), "Plus", Var("b"))),
      Assign("b", BinOp(Int5, "Plus", Real2_5)),
      Compound(<<Assign("a", Int7), NoOp>>) }

FlatPrograms ==
    { Program("Main", Block(d, body)) : d \in FlatDecls, body \in SeqsUpTo(FlatStmts, MaxStmts) }

(* PROGRAM Main; VAR a: INTEGER;                                           *)
(*   PROCEDURE p(params); locals; nested procedures; BEGIN body END;       *)
(*   further procedures                                                    *)
(* BEGIN main END.                                                         *)
(* A call statement p(args) is written here as in Pascal, but it is no     *)
(* text that Parser::parse accepts: Parser::statement builds assignments,  *)
(* compound and empty statements only (parser.rs:110-116).  The trees with *)
(* ProcedureCall nodes are the syntax trees of the specification, built    *)
(* node by node and handed to SemanticAnalyzer::visit, whose               *)
(* visit_procedure_call and the interpreter's take such nodes.             *)
ProcParams == { <<>>, <<Param("x", "INTEGER")>> }
ProcLocals == { <<>>, <<VarDecl("a", "INTEGER")>> }
\* PROCEDURE q; BEGIN a := 7 END; declared inside p
ProcNested == { <<>>, <<ProcedureDecl("q", <<>>, Block(<<>>, <<Assign("a", Int7)>>))>> }
\* PROCEDURE q; BEGIN p() END; declared after p
ProcSiblings == { <<>>, <<ProcedureDecl("q", <<>>, Block(<<>>, <<ProcedureCall("p", <<>>)>>))>> }
ProcBodies ==
    { <<Assign("a", Int7)>>,
      <<Assign("a", Var("x"))>>,
      <<Assign("x", Var("a"))>>,
      <<Assign("a", Int7), Assign("x", Var("a"))>>,
      <<ProcedureCall("p", <<>>)>>,
      <<ProcedureCall("q", <<>>)>> }
MainBodies ==
    { <<Assign("a", Int5), ProcedureCall("p", <<>>)>>,
      <<Assign("a", Int5), ProcedureCall("p", <<Var("a")>>)>>,
      <<ProcedureCall("q", <<>>)>> }

ProcPrograms ==
    { Program("Main",
          Block(<<VarDecl("a", "INTEGER"),
                  ProcedureDecl("p", params, Block(locals \o nested, body))>>
                \o siblings,
                main)) :
        params \in ProcParams, locals \in ProcLocals, nested \in ProcNested,
        body \in ProcBodies, siblings \in ProcSiblings, main \in MainBodies }

(* Programs that spell a name in two ways: a and A declared and used in   *)
(* the program, X the formal parameter of a procedure; Integer and reaL    *)
(* the names of the types (the lexer keeps the spelling of a keyword).     *)
CaseDecls ==
    { <<VarDecl("a", "INTEGER")>>,
      <<VarDecl("A", "INTEGER")>>,
      <<VarDecl("a", "INTEGER"), VarDecl("A", "INTEGER")>>,
      <<VarDecl("a", "Integer"), VarDecl("A", "reaL")>> }

CaseStmts ==
    { Assign("a", Int5),
      Assign("A", Int7),
      Assign("a", Var("A")),
      Assign("A", Var("a")) }

CaseFlatPrograms ==
    { Program("Main", Block(d, body)) : d \in CaseDecls, body \in SeqsUpTo(CaseStmts, MaxStmts) }

\* PROGRAM Main; VAR a: INTEGER; PROCEDURE p(X: INTEGER); BEGIN a := X END;
\* BEGIN p(5) END.   and the same with  a := x  as the body
CaseProcPrograms ==
    { Program("Main",
          Block(<<VarDecl("a", "INTEGER"),
                  ProcedureDecl("p", <<Param("X", "INTEGER")>>,
                                Block(<<>>, <<Assign("a", Var(read))>>))>>,
                <<ProcedureCall("p", <<Int5>>)>>)) : read \in {"x", "X"} }

CasePrograms == CaseFlatPrograms \cup CaseProcPrograms

(* A procedure that declares the name of an outer variable again, with    *)
(* another type:                                                           *)
(* PROGRAM Main; VAR a: INTEGER; b: INTEGER;                               *)
(*   PROCEDURE p; VAR a: REAL; BEGIN body END;                             *)
(* BEGIN p() END.                                                          *)
ShadowPrograms ==
    { Program("Main",
          Block(<<VarDecl("a", "INTEGER"), VarDecl("b", "INTEGER"),
                  ProcedureDecl("p", <<>>, Block(<<VarDecl("a", "REAL")>>, <<body>>))>>,
                <<ProcedureCall("p", <<>>)>>)) :
        body \in {Assign("a", Real2_5), Assign("a", Var("b")), Assign("b", Var("a"))} }

(* Programs that declare a name twice in one scope other than by two VAR  *)
(* declarations:                                                           *)
(*   PROCEDURE p(x, x: INTEGER); BEGIN END;          called as p(5, 7)     *)
(*   PROCEDURE p; declared twice, the second with another body             *)
(*   VAR p: INTEGER; and PROCEDURE p;                                      *)
(*   PROCEDURE p(x: INTEGER); VAR x: REAL;                                 *)
(* and a procedure whose second parameter names a type that no table       *)
(* holds (Parser::type_spec takes INTEGER and REAL only: a tree built by   *)
(* hand):                                                                  *)
(*   PROCEDURE p(x: INTEGER; y: BOOLEAN); BEGIN END;   called as p(5, 7)   *)
RedeclPrograms ==
    { Program("Main",
          Block(<<VarDecl("a", "INTEGER"),
                  ProcedureDecl("p", <<Param("x", "INTEGER"), Param("x", "INTEGER")>>,
                                Block(<<>>, <<NoOp>>))>>,
                <<ProcedureCall("p", <<Int5, Int7>>)>>)),
      Program("Main",
          Block(<<ProcedureDecl("p", <<>>, Block(<<>>, <<NoOp>>)),
                  ProcedureDecl("p", <<>>, Block(<<VarDecl("a", "INTEGER")>>,
                                                 <<Assign("a", Int7)>>))>>,
                <<ProcedureCall("p", <<>>)>>)),
      Program("Main",
          Block(<<VarDecl("p", "INTEGER"),
                  ProcedureDecl("p", <<>>, Block(<<>>, <<NoOp>>))>>,
                <<ProcedureCall("p", <<>>)>>)),
      Program("Main",
          Block(<<ProcedureDecl("p", <<Param("x", "INTEGER")>>,
                                Block(<<VarDecl("x", "REAL")>>, <<NoOp>>))>>,
                <<ProcedureCall("p", <<Int5>>)>>)),
      Program("Main",
          Block(<<VarDecl("a", "INTEGER"),
                  ProcedureDecl("p", <<Param("x", "INTEGER"), Param("y", "BOOLEAN")>>,
                                Block(<<>>, <<NoOp>>))>>,
                <<ProcedureCall("p", <<Int5, Int7>>)>>)) }

(* Programs whose main body refers to a formal parameter or a local of a  *)
(* procedure:                                                              *)
(* PROGRAM Main; VAR a: INTEGER;                                           *)
(*   PROCEDURE p(x: INTEGER); VAR b: REAL; BEGIN END;                      *)
(* BEGIN stmt END.                                                         *)
OuterRefPrograms ==
    { Program("Main",
          Block(<<VarDecl("a", "INTEGER"),
                  ProcedureDecl("p", <<Param("x", "INTEGER")>>,
                                Block(<<VarDecl("b", "REAL")>>, <<NoOp>>))>>,
                <<stmt>>)) :
        stmt \in { Assign("a", Var("x")), Assign("a", Var("b")), Assign("x", Int5),
                   Assign("a", UnaryOp("Minus", Var("x"))),
                   Assign("a", BinOp(Var("a"), "Plus", Var("b"))),
                   ProcedureCall("p", <<Var("x")>>) } }

(* Programs that divide by zero, in the main body and in a procedure:      *)
(* PROGRAM Main; VAR a: INTEGER;                                           *)
(*   PROCEDURE p(x: INTEGER); BEGIN x := x DIV 0 END;                      *)
(* BEGIN a := 5; stmt END.                                                 *)
DivZeroPrograms ==
    { Program("Main",
          Block(<<VarDecl("a", "INTEGER"),
                  ProcedureDecl("p", <<Param("x", "INTEGER")>>,
                                Block(<<>>, <<Assign("x", BinOp(Var("x"), "IntegerDiv",
                                                                Num(IntegerV(0))))>>))>>,
                <<Assign("a", Int5), stmt>>)) :
        stmt \in { Assign("a", BinOp(Var("a"), "IntegerDiv", Num(IntegerV(0)))),
                   Assign("a", BinOp(Int7, "Plus",
                                     BinOp(Int5, "IntegerDiv", BinOp(Var("a"), "Minus", Var("a"))))),
                   Assign("a", BinOp(Var("a"), "IntegerDiv", Int5)),
                   ProcedureCall("p", <<BinOp(Int7, "IntegerDiv", Num(IntegerV(0)))>>),
                   ProcedureCall("p", <<Var("a")>>) } }

(* Programs whose names hold letters outside ASCII.  The lexer makes a     *)
(* char of each byte of the text, so that the name written f, u-umlaut, r  *)
(* (in UTF-8 the bytes 66 C3 BC 72) is the name f, U+00C3, U+00BC, r:      *)
(* PROGRAM t; VAR für: INTEGER; b: INTEGER; BEGIN für := 2; b := für END.  *)
(* and the same without the declarations                                   *)
Latin1Programs ==
    { Program("t", Block(d, <<Assign("fÃ¼r", Num(IntegerV(2))),
                              Assign("b", Var("fÃ¼r"))>>)) :
        d \in { <<>>, <<VarDecl("fÃ¼r", "INTEGER"), VarDecl("b", "INTEGER")>> } }

(* Trees built by hand in which a node stands where the parser does not    *)
(* put it.  A Program node in the body of a procedure: PROCEDURE p; BEGIN  *)
(* <PROGRAM Q; BEGIN END.> END.  An expression as a statement: VAR a:      *)
(* INTEGER; BEGIN a := 5; <e>; a := 7 END with e one of a + 7, 1 DIV 0, -a *)
MisplacedNodeTrees ==
    { Program("Main", Block(<<ProcedureDecl("p", <<>>,
                                Block(<<>>, <<Program("Q", Block(<<>>, <<NoOp>>))>>))>>,
                            <<NoOp>>)) }
    \cup
    { Program("Main", Block(<<VarDecl("a", "INTEGER")>>,
                            <<Assign("a", Int5), e, Assign("a", Int7)>>)) :
        e \in { BinOp(Var("a"), "Plus", Int7),
                BinOp(Num(IntegerV(1)), "IntegerDiv", Num(IntegerV(0))),
                UnaryOp("Minus", Var("a")) } }

Programs ==
    FlatPrograms \cup ProcPrograms \cup CasePrograms \cup ShadowPrograms \cup RedeclPrograms
    \cup OuterRefPrograms \cup DivZeroPrograms \cup Latin1Programs \cup MisplacedNodeTrees

(* Trees handed to Interpreter::visit with the call nodes' slots filled by *)
(* hand: a chain of n calls, each procedure assigning its own a and then   *)
(* calling the next with an argument read in its own record.               *)
RECURSIVE CallChain(_, _)
CallChain(n, arg) ==
    [ProcedureCall("p", <<arg>>) EXCEPT !.proc_symbol =
        ProcedureSymbol("p", <<VarSymbol("x", BuiltinSymbol("INTEGER"))>>,
            Block(<<VarDecl("a", "INTEGER")>>,
                  IF n = 1 THEN <<Assign("a", BinOp(Var("x"), "Plus", Int7))>>
                  ELSE <<Assign("a", BinOp(Var("x"), "Plus", Int7)),
                         CallChain(n - 1, Var("a")),
                         Assign("x", Var("a"))>>))]

(* Trees built by hand in which a statement, a program or the empty        *)
(* statement stands where the parser puts an expression: as the right-hand *)
(* side of an assignment, as an operand or as an argument; and in which an *)
(* expression stands where the parser puts a statement.  p is              *)
(* PROCEDURE p(x: INTEGER); BEGIN a := x END, its symbol put in the call   *)
(* by hand.                                                                *)
CallP(arg) ==
    [ProcedureCall("p", <<arg>>) EXCEPT !.proc_symbol =
        ProcedureSymbol("p", <<VarSymbol("x", BuiltinSymbol("INTEGER"))>>,
            Block(<<>>, <<Assign("a", Var("x"))>>))]

OperandBodies ==
    { <<Assign("b", NoOp), Assign("c", Var("b"))>>,
      <<Assign("b", NoOp), Assign("c", BinOp(Var("b"), "Plus", Num(IntegerV(1))))>>,
      <<Assign("b", NoOp), Assign("c", UnaryOp("Minus", Var("b")))>>,
      <<Assign("b", Assign("a", Int5)), Assign("c", Var("a"))>>,
      <<Assign("c", BinOp(Assign("a", Int5), "Plus", Num(IntegerV(1))))>>,
      <<Assign("c", BinOp(Int7, "Plus", Compound(<<Assign("a", Int5)>>)))>>,
      <<Assign("b", Program("P", Block(<<>>,
            <<Assign("zz", BinOp(Num(IntegerV(1)), "IntegerDiv", Num(IntegerV(0))))>>)))>>,
      <<Assign("b", Program("P", Block(<<VarDecl("zz", "INTEGER")>>, <<Assign("zz", Int7)>>))),
        Assign("c", Var("b"))>>,
      <<Assign("a", Int5), CallP(Assign("a", Num(IntegerV(9)))), Assign("c", Var("a"))>>,
      <<Assign("a", Int5), CallP(NoOp)>>,
      <<Assign("a", Int5), Assign("b", CallP(Var("a"))), Assign("c", Var("b"))>>,
      <<Assign("a", Int5),
        Assign("b", CallP(BinOp(Int7, "IntegerDiv", Num(IntegerV(0)))))>>,
      <<Assign("a", Int5),
        Assign("b", [CallP(Int7) EXCEPT !.proc_symbol.block_ast =
                        Block(<<>>, <<Assign("x", BinOp(Var("x"), "IntegerDiv",
                                                        Num(IntegerV(0))))>>)])>>,
      <<Assign("b", NoOp),
        Assign("c", BinOp(Var("b"), "Plus", BinOp(Int7, "IntegerDiv", Num(IntegerV(0)))))>>,
      <<Assign("a", Int5),
        [ProcedureCall("p", <<Assign("a", Num(IntegerV(9))),
                              BinOp(Int7, "IntegerDiv", Num(IntegerV(0)))>>)
            EXCEPT !.proc_symbol =
                ProcedureSymbol("p", <<VarSymbol("x", BuiltinSymbol("INTEGER")),
                                       VarSymbol("y", BuiltinSymbol("INTEGER"))>>,
                    Block(<<>>, <<NoOp>>))]>>,
      <<Assign("a", Int5), Num(IntegerV(1)), Assign("a", Num(IntegerV(2)))>>,
      <<Assign("a", Int5), BinOp(Var("a"), "Plus", Int7), Assign("b", Var("a"))>>,
      <<Assign("a", Int5), BinOp(Num(IntegerV(1)), "IntegerDiv", Num(IntegerV(0))),
        Assign("a", Int7)>>,
      <<Assign("a", Int5), UnaryOp("Minus", Var("zz")), Assign("a", Int7)>> }

OperandTrees == { Program("Main", Block(<<>>, body)) : body \in OperandBodies }

DirectTrees ==
    { Program("Main", Block(<<VarDecl("a", "INTEGER")>>,
                            <<Assign("a", Int5), CallChain(n, arg), Assign("a", Var("a"))>>)) :
        n \in 1..MaxNest, arg \in {Int5, Var("a")} }
    \cup CaseFlatPrograms \cup Latin1Programs \cup OperandTrees

-----------------------------------------------------------------------------
(* SemanticAnalyzer::new and Interpreter::new, and the tree each run is    *)
(* given                                                                   *)
Init ==
    /\ mode \in {"pipeline", "direct"}
    /\ tree \in IF mode = "pipeline" THEN Programs ELSE DirectTrees
    /\ phase = IF mode = "pipeline" THEN "analysis" ELSE "execution"
    /\ kont = IF mode = "pipeline" THEN <<AVisit(<<>>)>> ELSE <<IVisit(tree)>>
    /\ current_scope = SymbolTable_new("global", 1, NoneVal)
    /\ call_stack = <<>>
    /\ error = "none"
    /\ hcalls = <<>>
    /\ result = NoneVal
    /\ overflow_checks \in BOOLEAN

(* the analyzer's visit of the tree has returned *)
Analyzed == phase = "analysis" /\ kont = <<>>
(* the interpreter's visit of the tree has returned *)
Executed == phase = "execution" /\ kont = <<>>

(* the driver: the interpreter visits the tree the analyzer has accepted *)
RunInterpreter ==
    /\ Analyzed
    /\ phase' = "execution"
    /\ kont' = <<IVisit(tree)>>
    /\ UNCHANGED <<mode, tree, current_scope, call_stack, error, hcalls, result,
                   overflow_checks>>

Next ==
    \/ SA_visit_num
    \/ SA_visit_unary_op
    \/ SA_visit_bin_op
    \/ SA_visit_compound
    \/ SA_visit_noop
    \/ SA_visit_assign
    \/ SA_visit_var
    \/ SA_visit_program
    \/ SA_leave_program
    \/ SA_visit_block
    \/ SA_visit_var_decl
    \/ SA_visit_procedure_decl
    \/ SA_leave_procedure
    \/ SA_visit_procedure_call
    \/ SA_annotate_call
    \/ RunInterpreter
    \/ I_visit_program
    \/ I_exit_program
    \/ I_visit_block
    \/ I_visit_var_decl
    \/ I_visit_procedure_decl
    \/ I_visit_compound
    \/ I_visit_noop
    \/ I_visit_assign
    \/ I_visit_procedure_call
    \/ I_exit_procedure
    \/ I_visit_expression

Spec == Init /\ [][Next]_vars

-----------------------------------------------------------------------------
(* What the properties below say of a tree, of a place in it and of a run  *)

Range(f) == {f[i] : i \in DOMAIN f}

(* the names a node refers to: variable references, assignment targets,    *)
(* arguments of calls                                                      *)
RECURSIVE RefNames(_)
RefNames(n) ==
    CASE n.k = "Var" -> {n.value}
      [] n.k = "BinOp" -> RefNames(n.left) \cup RefNames(n.right)
      [] n.k = "UnaryOp" -> RefNames(n.expr)
      [] n.k = "Assign" -> {n.left.value} \cup RefNames(n.right)
      [] n.k = "Compound" -> UNION {RefNames(c) : c \in Range(n.children)}
      [] n.k = "ProcedureCall" -> UNION {RefNames(c) : c \in Range(n.actual_params)}
      [] n.k = "ProcedureDecl" -> RefNames(n.block_node)
      [] n.k = "Block" ->
            UNION {RefNames(c) : c \in Range(n.declarations)}
            \cup RefNames(n.compound_statement)
      [] n.k = "Program" -> RefNames(n.block)
      [] OTHER -> {}

(* the names a node declares as a variable or a formal parameter *)
RECURSIVE DeclNames(_)
DeclNames(n) ==
    CASE n.k = "VarDecl" -> {n.var_node.value}
      [] n.k = "ProcedureDecl" ->
            {q.var_node.value : q \in Range(n.formal_params)} \cup DeclNames(n.block_node)
      [] n.k = "Block" -> UNION {DeclNames(c) : c \in Range(n.declarations)}
      [] n.k = "Program" -> DeclNames(n.block)
      [] OTHER -> {}

(* the tree refers to a name that no scope of it declares *)
RefersToUndeclared(t) ==
    \E r \in RefNames(t) : \A d \in DeclNames(t) : to_lowercase(d) # to_lowercase(r)

(* the node the analyzer stopped at or is about to visit *)
AtNode == NodeAt(tree, Head(kont).path)

(* the analyzer raised IdentifierNotFound on a call node *)
CalleeNotFound ==
    /\ phase = "aborted"
    /\ error = IDNotFound
    /\ Head(kont).v = "visit"
    /\ "path" \in DOMAIN Head(kont)
    /\ AtNode.k = "ProcedureCall"

(* the call at `path` is in the body of a procedure P, and the block that  *)
(* declares P declares a procedure of the called name after P              *)
IsForwardCall(path) ==
    \E cut \in 1..Len(path) :
        /\ path[cut].f = "declarations"
        /\ \A later \in (cut + 1)..Len(path) : path[later].f # "declarations"
        /\ LET block == NodeAt(tree, SubSeq(path, 1, cut - 1))
           IN  \E j \in (path[cut].i + 1)..Len(block.declarations) :
                   /\ block.declarations[j].k = "ProcedureDecl"
                   /\ block.declarations[j].proc_name = NodeAt(tree, path).proc_name

(* every call the interpreter can reach from a statement has its slot      *)
(* filled, and so has every call in the block the slot's symbol holds      *)
RECURSIVE Annotated(_)
Annotated(n) ==
    CASE n.k = "Compound" -> \A c \in Range(n.children) : Annotated(c)
      [] n.k = "Block" -> Annotated(n.compound_statement)
      [] n.k = "Program" -> Annotated(n.block)
      [] n.k = "ProcedureCall" ->
            /\ n.proc_symbol.kind = "Procedure"
            /\ n.proc_symbol.block_ast # NoneVal
            /\ Annotated(n.proc_symbol.block_ast)
      [] OTHER -> TRUE

-----------------------------------------------------------------------------
(* C1: a reference to a name that no scope declares, at any place of the   *)
(* source, makes the analyzer fail with IdentifierNotFound (unless another *)
(* analysis error stops it first), before the interpreter pushes a record  *)
(* or sets a binding: the run never reaches execution.                     *)
C1_UndeclaredNameRejected ==
    (mode = "pipeline" /\ RefersToUndeclared(tree)) =>
        /\ ~Analyzed
        /\ phase # "execution"
        /\ call_stack = <<>>
        /\ (phase = "aborted" => error \in {IDNotFound, DuplicateID, WrongParamsNum})

(* C2: a call to a procedure declared in the scope of the call or in an    *)
(* enclosing scope (a call of a procedure to itself included) is not       *)
(* rejected with IdentifierNotFound.                                       *)
C2_CalleeFoundThroughChain ==
    CalleeNotFound =>
        lookup(current_scope, AtNode.proc_name, FALSE).kind # "Procedure"

(* C3: a call in the body of P to a procedure Q declared after P in the    *)
(* same scope is not rejected with IdentifierNotFound.                     *)
C3_ForwardCallResolves ==
    ~(CalleeNotFound /\ IsForwardCall(Head(kont).path))

(* C4: once analysis has succeeded, every call node the interpreter can    *)
(* evaluate, in the program body and in the block held by the symbol of    *)
(* any such call, has its annotation slot filled.                          *)
C4_CallsAnnotated ==
    (mode = "pipeline" /\ (Analyzed \/ phase = "execution")) => Annotated(tree)

-----------------------------------------------------------------------------
(* What the interpreter is about to evaluate                               *)

(* the variable references the evaluation of an expression executes: the   *)
(* right operand of a BinOp is not evaluated when the left one panicked    *)
RECURSIVE ExecutedVars(_, _)
ExecutedVars(node, records) ==
    CASE node.k = "Var" -> {node.value}
      [] node.k = "BinOp" ->
            ExecutedVars(node.left, records) \cup
            (IF IsPanic(OperandAsF32(ValueOf(node.left, records))) THEN {}
             ELSE ExecutedVars(node.right, records))
      [] node.k = "UnaryOp" -> ExecutedVars(node.expr, records)
      [] OTHER -> {}

(* the expressions the statement at the head of kont evaluates, in the top *)
(* record as it is now: the right-hand side of an assignment, the          *)
(* arguments of a call up to the first that panics                         *)
ExecutedExprs ==
    LET node == Head(kont).node
    IN  CASE node.k = "Assign" -> {node.right}
          [] node.k = "ProcedureCall" /\ node.proc_symbol # NoneVal ->
                {node.actual_params[i] :
                    i \in {j \in 1..Min(Len(node.proc_symbol.formal_params),
                                        Len(node.actual_params)) :
                            \A e \in 1..(j - 1) :
                                ~IsPanic(ValueOf(node.actual_params[e], call_stack))}}
          [] OTHER -> {}

(* the variables a block declares itself *)
VarDeclNames(block) ==
    {d.var_node.value : d \in {c \in Range(block.declarations) : c.k = "VarDecl"}}

(* the local variables and formal parameters of the program or procedure   *)
(* whose body is executing                                                 *)
LocalNames ==
    IF hcalls = <<>> THEN VarDeclNames(tree.block)
    ELSE LET proc == hcalls[Len(hcalls)].proc
         IN  {q.name : q \in Range(proc.formal_params)} \cup VarDeclNames(proc.block_ast)

(* the operators visit_bin_op may apply to two operands of a kind *)
OpValidFor(op, kind) ==
    CASE kind = "Integer" -> op \in {"Plus", "Minus", "Mul", "IntegerDiv"}
      [] kind = "Float" -> op \in {"Plus", "Minus", "Mul", "FloatDiv"}
      [] OTHER -> FALSE

(* every BinOp the evaluation of the expression applies has two operands   *)
(* of one numeric kind and an operator valid for it                        *)
RECURSIVE KindsAgree(_, _)
KindsAgree(node, records) ==
    CASE node.k = "BinOp" ->
            LET lv == ValueOf(node.left, records)
                rv == ValueOf(node.right, records)
            IN  /\ KindsAgree(node.left, records)
                /\ ~IsPanic(lv) => KindsAgree(node.right, records)
                /\ (~IsPanic(lv) /\ ~IsPanic(rv)) =>
                       (lv.kind = rv.kind /\ OpValidFor(node.op, lv.kind))
      [] node.k = "UnaryOp" -> KindsAgree(node.expr, records)
      [] OTHER -> TRUE

(* the interpreter is about to execute a statement of an analysed program *)
ExecutingAnalysed ==
    /\ mode = "pipeline"
    /\ phase = "execution"
    /\ kont # <<>>
    /\ Head(kont).v = "visit"
    /\ call_stack # <<>>

-----------------------------------------------------------------------------
(* C5: in a program that passed analysis, every variable reference that is *)
(* executed and names a local variable or formal parameter of the program  *)
(* or procedure now executing finds a binding in the top record.           *)
C5_LocalsBound ==
    ExecutingAnalysed =>
        \A e \in ExecutedExprs :
            \A name \in ExecutedVars(e, call_stack) \cap LocalNames :
                ar_get(peek(call_stack), VarReadKey(name)) # NoneVal

(* C6: in a program that passed analysis, every BinOp that is executed     *)
(* combines two operands of the same numeric kind with an operator valid   *)
(* for that kind.                                                          *)
C6_NoKindMismatch ==
    ExecutingAnalysed =>
        \A e \in ExecutedExprs : KindsAgree(e, call_stack)

(* C7: once the program has been executed, the call stack holds exactly    *)
(* one record, the Program record.                                         *)
C7_ProgramFrameRetained ==
    Executed => (Len(call_stack) = 1 /\ call_stack[1].type_ = "Program")

-----------------------------------------------------------------------------
(* the call stack as it was when the innermost call in progress began *)
BeforeCall == hcalls[Len(hcalls)].records

(* C8: when a procedure call completes, the depth of the call stack is the *)
(* depth it had immediately before the call; the records pushed and not    *)
(* yet popped are those of the calls in progress, innermost on top, also   *)
(* when calls are nested in called bodies.                                 *)
C8_PushPopPaired ==
    [][ /\ IResting("exit_procedure") => Len(call_stack') = Len(BeforeCall)
        /\ \A i \in 1..Len(hcalls') :
               Len(hcalls'[i].records) = Len(call_stack') - Len(hcalls') + i - 1 ]_vars

(* a call nested in a called body has completed and its caller, itself a   *)
(* procedure, goes on in its own record                                    *)
C8_Witness ==
    /\ mode = "direct"
    /\ phase = "execution"
    /\ Len(hcalls) = 1
    /\ Len(call_stack) = 2
    /\ call_stack[2].type_ = "Procedure"
    /\ kont # <<>>
    /\ Head(kont) = IVisit(Assign("x", Var("a")))

(* C9: an assignment executed in a procedure changes the top record only:  *)
(* while a call is in progress, and when it is about to return, every      *)
(* record below the callee's is as it was when the call began, so a name   *)
(* bound below keeps its binding whatever the procedure assigns to it.     *)
C9_LowerFramesUnchanged ==
    \A i \in 1..Len(hcalls) :
        /\ Len(call_stack) > Len(hcalls[i].records)
        /\ SubSeq(call_stack, 1, Len(hcalls[i].records)) = hcalls[i].records

(* a procedure has assigned to a, which the program's record binds too,    *)
(* and the two bindings differ                                             *)
C9_Witness ==
    /\ phase = "execution"
    /\ Len(hcalls) = 1
    /\ Len(call_stack) = 2
    /\ ar_get(call_stack[1], "a") = IntegerV(5)
    /\ ar_get(call_stack[2], "a") \notin {NoneVal, IntegerV(5)}

(* the VarDecl at `path` follows a VarDecl of the same name in the         *)
(* declarations of its block, or names a formal parameter of the procedure *)
(* whose block it is in                                                    *)
DeclaredInSameScope(path) ==
    LET name == NodeAt(tree, path).var_node.value
        at == path[Len(path)].i
        owner == SubSeq(path, 1, Len(path) - 1)
        block == NodeAt(tree, owner)
    IN  \/ \E j \in 1..(at - 1) :
               /\ block.declarations[j].k = "VarDecl"
               /\ block.declarations[j].var_node.value = name
        \/ /\ owner # <<>>
           /\ owner[Len(owner)].f = "block_node"
           /\ \E q \in Range(NodeAt(tree, SubSeq(owner, 1, Len(owner) - 1)).formal_params) :
                  q.var_node.value = name

(* C10: the visit of a variable declaration fails with DuplicateIdentifier *)
(* exactly when the name is already declared in the same scope; a name     *)
(* declared in an outer scope only is accepted and inserted.               *)
C10_DuplicateInScopeOnly ==
    [][ AVisiting("VarDecl") =>
          IF DeclaredInSameScope(Head(kont).path)
          THEN phase' = "aborted" /\ error' = DuplicateID
          ELSE /\ phase' = "analysis"
               /\ lookup(current_scope', AtNode.var_node.value, TRUE).kind = "Var" ]_vars

(* the analyzer has accepted a declaration of a in the scope of a          *)
(* procedure while the enclosing scope declares a as well                  *)
C10_Witness ==
    /\ phase = "analysis"
    /\ current_scope.scope_level = 2
    /\ lookup(current_scope, "a", TRUE).kind = "Var"
    /\ lookup(current_scope.enclosing_scope, "a", TRUE).kind = "Var"

-----------------------------------------------------------------------------
(* the analyzer is about to visit a call whose callee its lookup finds *)
AtResolvedCall ==
    /\ AVisiting("ProcedureCall")
    /\ Callee(current_scope, AtNode.proc_name).kind = "Procedure"

(* C11: the visit of a call whose callee the analyzer resolves fails with  *)
(* ParameterCountMismatch when the number of arguments differs from the    *)
(* number of formal parameters of the resolved procedure, and otherwise    *)
(* goes on without an error.                                               *)
C11_ArityChecked ==
    [][ AtResolvedCall =>
          IF Len(Callee(current_scope, AtNode.proc_name).formal_params)
                 # Len(AtNode.actual_params)
          THEN phase' = "aborted" /\ error' = WrongParamsNum
          ELSE phase' = "analysis" /\ error' = "none" ]_vars

(* the analyzer has rejected a call that passes an argument to a procedure *)
(* declared without parameters                                             *)
C11_Witness ==
    /\ phase = "aborted"
    /\ error = WrongParamsNum
    /\ AtNode.k = "ProcedureCall"
    /\ Len(AtNode.actual_params) = 1
    /\ Len(Callee(current_scope, AtNode.proc_name).formal_params) = 0

-----------------------------------------------------------------------------
(* the casings of a name the model tells apart *)
Spellings(name) == {name, to_lowercase(name), to_uppercase(name)}

(* the statement at the head of kont has been executed without a panic *)
StatementDone == phase' = "execution" /\ kont' # kont

(* C12: a binding is stored and read under one canonical form of its name: *)
(* once an assignment has stored a value, a reference to the name in any   *)
(* casing reads that value in the top record, and so does a reference to a *)
(* formal parameter once a call has bound its argument.                    *)
C12_CaseInsensitiveBindings ==
    [][ /\ (IVisiting("Assign") /\ StatementDone) =>
               \A s \in Spellings(Head(kont).node.left.value) :
                   Interpreter_visit_var(Var(s), call_stack')
                       = ValueOf(Head(kont).node.right, call_stack)
        /\ (IVisiting("ProcedureCall") /\ StatementDone) =>
               LET call == Head(kont).node
                   formal_params == call.proc_symbol.formal_params
               IN  \A i \in 1..Min(Len(formal_params), Len(call.actual_params)) :
                       \A s \in Spellings(formal_params[i].name) :
                           Interpreter_visit_var(Var(s), call_stack')
                               = ValueOf(call.actual_params[i], call_stack) ]_vars

-----------------------------------------------------------------------------
(* the names of the Variable symbols a table holds, with those of its      *)
(* enclosing tables unless current_scope_only                              *)
RECURSIVE VarNamesIn(_, _)
VarNamesIn(table, current_scope_only) ==
    IF table = NoneVal THEN {}
    ELSE {n \in DOMAIN table.symbols : table.symbols[n].kind = "Var"}
         \cup (IF current_scope_only THEN {}
               ELSE VarNamesIn(table.enclosing_scope, FALSE))

(* some name of the set is the given name in another or the same casing *)
SameNameIn(names, name) ==
    \E d \in names : to_lowercase(d) = to_lowercase(name)

(* C13: the analyzer's lookups ignore the casing of a name: a reference to *)
(* a variable declared in the scope chain under any casing is resolved,    *)
(* and a declaration of a name the current scope declares under any casing *)
(* fails with DuplicateIdentifier.                                         *)
C13_CaseInsensitiveLookup ==
    [][ /\ (AVisiting("Var")
            /\ SameNameIn(VarNamesIn(current_scope, FALSE), AtNode.value)) =>
               phase' = "analysis"
        /\ (AVisiting("VarDecl")
            /\ SameNameIn(VarNamesIn(current_scope, TRUE), AtNode.var_node.value)) =>
               (phase' = "aborted" /\ error' = DuplicateID) ]_vars

-----------------------------------------------------------------------------
(* Interpreter::visit handed an expression, as tests::binary_ops and       *)
(* tests::unary_op do: the call stack is empty and the Value returned is   *)
(* the result.                                                             *)

\* integer and real literals run from 0 to MaxLit
MaxLit == 10

Neg(node) == UnaryOp("Minus", node)

\* Integer literals: the small ones, and 2^24 + 1, the least positive
\* integer that is not an f32
BigLit == Num(IntegerV(MantissaTop + 1))
IntLits == {Num(IntegerV(n)) : n \in 0..MaxLit}
\* Float literals: n.0 for the even n, and 2.5
FloatLits == {Num(Ratio(n, 1)) : n \in {m \in 0..MaxLit : m % 2 = 0}} \cup {Real2_5}
Lits == IntLits \cup FloatLits
\* a literal, or a literal with a sign
Operands == Lits \cup {Neg(l) : l \in Lits}

BinOps == {"Plus", "Minus", "Mul", "IntegerDiv", "FloatDiv"}

\* x op y
BinaryTrees == {BinOp(x, op, y) : x \in Operands, op \in BinOps, y \in Operands}
\* 2^24 + 1 with a small integer
BigTrees ==
    {BinOp(BigLit, op, y) : op \in BinOps, y \in IntLits \cup {Neg(l) : l \in IntLits}}
    \cup {BinOp(x, op, BigLit) : op \in {"Plus", "Minus", "Mul", "IntegerDiv"}, x \in IntLits}
\* (a op b) op c over 2, 7, 3 and 2^24 + 1, all Integer or all Float
TreeLits == {2, 7, 3}
TreeOps == {"Plus", "Minus", "Mul"}
NestedTrees ==
    {BinOp(BinOp(Num(a), p, Num(b)), q, Num(c)) :
        a \in {IntegerV(n) : n \in TreeLits}, b \in {IntegerV(n) : n \in TreeLits},
        c \in {IntegerV(n) : n \in TreeLits}, p \in TreeOps, q \in TreeOps}
    \cup {BinOp(BinOp(Num(a), p, Num(b)), q, Num(c)) :
        a \in {Ratio(n, 1) : n \in TreeLits}, b \in {Ratio(n, 1) : n \in TreeLits},
        c \in {Ratio(n, 1) : n \in TreeLits}, p \in TreeOps, q \in TreeOps}
    \cup {BinOp(BinOp(BigLit, "Mul", Num(IntegerV(1))), q, Num(IntegerV(c))) :
        q \in {"Plus", "Minus"}, c \in 0..1}
\* an operand that panics, on the left, on the right, on both sides
PanicTrees ==
    {BinOp(x, "Plus", y) :
        x \in {Int5, BinOp(Int5, "IntegerDiv", Num(IntegerV(0)))},
        y \in {Int7, Var("a")}}
\* trees built by hand with the empty statement or a statement as an
\* operand: the operand's Value is Value::None, or the assignment finds no
\* record on the empty call stack
NoValueTrees ==
    {BinOp(NoOp, "Plus", Int5), BinOp(Int5, "Plus", NoOp),
     BinOp(Compound(<<NoOp>>), "Mul", Int7), UnaryOp("Minus", NoOp),
     UnaryOp("Plus", Compound(<<>>)), BinOp(Int5, "Plus", Assign("a", Int5))}
\* 0.0 * - 2.0, the expression of -0.0
NegZero == BinOp(Num(FloatZero(1)), "Mul", Neg(Num(Ratio(2, 1))))
\* 1.0 / z and 1.0 DIV z for expressions z of a zero: -0.0, -0.0 + -0.0,
\* -0.0 + 0.0, -0.0 - 0.0, 0.0 - -0.0, 2.0 / -inf, -0.0 * -0.0, -0.0 / 2.0
SignedZeroTrees ==
    {BinOp(Num(Ratio(1, 1)), op, z) :
        op \in {"FloatDiv", "IntegerDiv"},
        z \in {NegZero,
               BinOp(NegZero, "Plus", NegZero),
               BinOp(NegZero, "Plus", Num(FloatZero(1))),
               BinOp(NegZero, "Minus", Num(FloatZero(1))),
               BinOp(Num(FloatZero(1)), "Minus", NegZero),
               BinOp(Num(Ratio(2, 1)), "FloatDiv", Neg(Num(FloatInf(1)))),
               BinOp(NegZero, "Mul", NegZero),
               BinOp(NegZero, "FloatDiv", Num(Ratio(2, 1))),
               BinOp(Neg(Num(FloatInf(1))), "FloatDiv", NegZero)}}
\* + x, - x, - - x; 5 - - - 2; the least i32, the infinities and -0.0 under
\* a sign
UnaryTrees ==
    {UnaryOp(op, x) : op \in {"Plus", "Minus"}, x \in Operands}
    \cup {UnaryOp(op, x) : op \in {"Plus", "Minus"},
            x \in {Num(IntegerV(I32Min)), Neg(Num(IntegerV(I32Min))),
                   Num(FloatInf(1)), Neg(Num(FloatInf(1))), Num(FloatNaN),
                   NegZero, Neg(NegZero)}}
    \cup {BinOp(Num(v), "Minus", Neg(Neg(Num(w)))) :
            v \in {IntegerV(5), Ratio(5, 1)}, w \in {IntegerV(2), Ratio(2, 1)}}

EvalTrees ==
    BinaryTrees \cup BigTrees \cup NestedTrees \cup PanicTrees \cup NoValueTrees
    \cup SignedZeroTrees \cup UnaryTrees

(* Interpreter::new, and the expression handed to visit *)
InitEval ==
    /\ mode = "direct"
    /\ tree \in EvalTrees
    /\ phase = "execution"
    /\ kont = <<IVisit(tree)>>
    /\ current_scope = SymbolTable_new("global", 1, NoneVal)
    /\ call_stack = <<>>
    /\ error = "none"
    /\ hcalls = <<>>
    /\ result = NoneVal
    /\ overflow_checks \in BOOLEAN

NextEval == I_visit_expression

SpecEval == InitEval /\ [][NextEval]_vars

(* visit has returned the Value of the expression *)
Returned == phase = "execution" /\ kont = <<>> /\ IsExpression(tree)
(* visit has panicked on the expression *)
Panicked == phase = "aborted" /\ IsExpression(tree)
(* the values of the operands of the BinOp or UnaryOp that tree is *)
LeftValue == ValueOf(tree.left, call_stack)
RightValue == ValueOf(tree.right, call_stack)
OperandValue == ValueOf(tree.expr, call_stack)

-----------------------------------------------------------------------------
(* tree is a BinOp whose operands have been evaluated to values of these   *)
(* kinds                                                                   *)
BinOpOn(left_kind, right_kind) ==
    /\ tree.k = "BinOp"
    /\ LeftValue.kind = left_kind
    /\ RightValue.kind = right_kind

(* C14: a BinOp whose operands evaluate to an Integer and a Float is a     *)
(* fatal error: visit returns no value for it.                             *)
C14_MixedKindsFatal ==
    (BinOpOn("Integer", "Float") \/ BinOpOn("Float", "Integer")) =>
        (~Returned /\ result = NoneVal)

(* C15: `/` on two Integer operands and DIV on two Float operands are      *)
(* fatal errors: visit returns no value for them.                          *)
C15_DivisionsNotInterchangeable ==
    (\/ BinOpOn("Integer", "Integer") /\ tree.op = "FloatDiv"
     \/ BinOpOn("Float", "Float") /\ tree.op = "IntegerDiv") =>
        (~Returned /\ result = NoneVal)

(* the quotient of a by b truncated toward zero *)
TruncDiv(a, b) == Sign(a) * Sign(b) * (Abs(a) \div Abs(b))

(* C16: for Integer operands a and b, b not 0, a DIV b returns the Integer *)
(* quotient truncated toward zero.                                         *)
C16_IntegerDivTruncates ==
    (BinOpOn("Integer", "Integer") /\ tree.op = "IntegerDiv" /\ RightValue.v # 0) =>
        /\ ~Panicked
        /\ Returned => result = IntegerV(TruncDiv(LeftValue.v, RightValue.v))

-----------------------------------------------------------------------------
(* the kinds of the literals of a tree of BinOp nodes; "Other" for a leaf  *)
(* that is no literal                                                      *)
RECURSIVE LitKinds(_)
LitKinds(node) ==
    CASE node.k = "Num" -> {node.value.kind}
      [] node.k = "BinOp" -> LitKinds(node.left) \cup LitKinds(node.right)
      [] OTHER -> {"Other"}

(* the operators of a tree of BinOp nodes *)
RECURSIVE OpsOf(_)
OpsOf(node) ==
    IF node.k = "BinOp" THEN {node.op} \cup OpsOf(node.left) \cup OpsOf(node.right)
    ELSE {}

(* the arithmetic value of a tree of +, -, * over literals of one kind:    *)
(* the exact integer for Integer literals, the f32 operations for Float    *)
RECURSIVE ArithValue(_)
ArithValue(node) ==
    IF node.k = "Num" THEN node.value
    ELSE LET l == ArithValue(node.left)
             r == ArithValue(node.right)
         IN  IF l.kind = "Integer"
             THEN IntegerV(CASE node.op = "Plus" -> l.v + r.v
                             [] node.op = "Minus" -> l.v - r.v
                             [] node.op = "Mul" -> l.v * r.v)
             ELSE CASE node.op = "Plus" -> FAdd(l, r)
                    [] node.op = "Minus" -> FSub(l, r)
                    [] node.op = "Mul" -> FMul(l, r)

(* C17: visit on a tree of +, -, * over literals of one numeric kind       *)
(* returns the arithmetic value of the tree, of the kind of the literals;  *)
(* the left operand is evaluated before the right one, so a panic of the   *)
(* left operand is the panic of the BinOp.                                 *)
C17_TreeValue ==
    /\ (/\ tree.k = "BinOp"
        /\ LitKinds(tree) \in {{"Integer"}, {"Float"}}
        /\ OpsOf(tree) \subseteq {"Plus", "Minus", "Mul"}) =>
           /\ ~Panicked
           /\ Returned => result = ArithValue(tree)
    /\ (tree.k = "BinOp" /\ IsPanic(LeftValue) /\ Panicked) => error = LeftValue.why

-----------------------------------------------------------------------------
(* x is a Float zero, of either sign *)
IsFloatZero(x) == x.kind = "Float" /\ x.num = 0 /\ x.den # 0

(* r and x are the same number: the same value, or two Float zeros (0.0    *)
(* and -0.0 are equal as f32 and as Value)                                 *)
SameNumber(r, x) == r = x \/ (IsFloatZero(r) /\ IsFloatZero(x))

(* r is the negation of the numeric value x, of the kind of x; the least   *)
(* i32 has no negation among the Integers                                  *)
IsNegationOf(r, x) ==
    /\ r.kind = x.kind
    /\ IF x.kind = "Integer"
       THEN x.v # I32Min /\ r.v = -x.v
       ELSE SameNumber(r, FNeg(x))

(* r is what a unary operator returns for the Float or Integer x that is   *)
(* its exact result: x itself, and 0.0 for a Float zero of either sign     *)
ReturnedAs(r, x) == IF IsFloatZero(x) THEN r = FloatZero(1) ELSE r = x

(* tree is a UnaryOp on an operand that evaluates to a numeric value *)
UnaryOn(op) ==
    /\ tree.k = "UnaryOp"
    /\ tree.op = op
    /\ OperandValue.kind \in {"Integer", "Float"}

(* 5 - - - 2 over literals of the kind of the value *)
FiveMinusNegNegTwo(five, two) == BinOp(Num(five), "Minus", Neg(Neg(Num(two))))

(* C18 as stated: for every numeric value x, unary - returns the negation  *)
(* of x, of the kind of x.                                                 *)
C18_NegatesEveryValue ==
    UnaryOn("Minus") =>
        /\ ~Panicked
        /\ Returned => IsNegationOf(result, OperandValue)

(* C18: for every numeric value x, unary + returns x; for every numeric x  *)
(* other than the least Integer -2^31, unary - returns the negation of x,  *)
(* of the kind of x, so - - x returns x and 5 - - - 2 returns 3; on -2^31  *)
(* unary - panics when the build checks overflow and returns -2^31 when it *)
(* does not.  A Float zero is returned as 0.0 whatever the sign of the     *)
(* operand: 0.0 and -0.0 are one number.                                   *)
C18_UnaryOps ==
    /\ UnaryOn("Plus") => (~Panicked /\ (Returned => ReturnedAs(result, OperandValue)))
    /\ (UnaryOn("Minus") /\ OperandValue # IntegerV(I32Min)) =>
           /\ ~Panicked
           /\ Returned => (/\ IsNegationOf(result, OperandValue)
                           /\ result.kind = "Float" => ReturnedAs(result, FNeg(OperandValue)))
    /\ (UnaryOn("Minus") /\ OperandValue = IntegerV(I32Min)) =>
           IF overflow_checks THEN ~Returned
           ELSE ~Panicked /\ (Returned => result = OperandValue)
    /\ (/\ UnaryOn("Minus")
        /\ tree.expr.k = "UnaryOp"
        /\ tree.expr.op = "Minus"
        /\ ValueOf(tree.expr.expr, call_stack).kind \in {"Integer", "Float"}
        /\ IntegerV(I32Min) \notin {OperandValue, ValueOf(tree.expr.expr, call_stack)}
        /\ Returned) =>
           ReturnedAs(result, ValueOf(tree.expr.expr, call_stack))
    /\ (Returned /\ tree = FiveMinusNegNegTwo(IntegerV(5), IntegerV(2))) =>
           result = IntegerV(3)
    /\ (Returned /\ tree = FiveMinusNegNegTwo(Ratio(5, 1), Ratio(2, 1))) =>
           result = Ratio(3, 1)

(* visit has returned 2.5 for - - 2.5 *)
C18_Witness ==
    /\ Returned
    /\ tree = Neg(Neg(Real2_5))
    /\ result = Ratio(5, 2)

-----------------------------------------------------------------------------
(* symbols.rs: SymbolTableBuilder, the visitor that fills one global table. *)
(* A run starts from SymbolTable::new("global", 1, None) and the tree of a  *)
(* program; the table is held in current_scope.                             *)

MaxDecls == 2

(* the panics of the builder: Option::unwrap on None, SemanticError::throw *)
UnwrapNone == "called Option::unwrap() on a None value"
UndeclaredVariable == "Use of undeclared variable"

BVisiting(kind) ==
    /\ phase = "building"
    /\ kont # <<>>
    /\ Head(kont).v = "visit"
    /\ Head(kont).node.k = kind

BContinue(visits) ==
    /\ kont' = visits \o Tail(kont)
    /\ UNCHANGED <<mode, phase, tree, call_stack, error, hcalls, result, overflow_checks>>

STB_visit_num ==
    /\ BVisiting("Num")
    /\ BContinue(<<>>)
    /\ UNCHANGED current_scope

STB_visit_bin_op ==
    /\ BVisiting("BinOp")
    /\ BContinue(<<IVisit(Head(kont).node.left), IVisit(Head(kont).node.right)>>)
    /\ UNCHANGED current_scope

STB_visit_unary_op ==
    /\ BVisiting("UnaryOp")
    /\ BContinue(<<IVisit(Head(kont).node.expr)>>)
    /\ UNCHANGED current_scope

STB_visit_compound ==
    /\ BVisiting("Compound")
    /\ BContinue(IVisitEach(Head(kont).node.children))
    /\ UNCHANGED current_scope

STB_visit_noop ==
    /\ BVisiting("NoOp")
    /\ BContinue(<<>>)
    /\ UNCHANGED current_scope

(* visit_assign: the left name is looked up through the chain and the     *)
(* Option unwrapped, then the right side is visited                        *)
STB_visit_assign ==
    /\ BVisiting("Assign")
    /\ LET assign == Head(kont).node
       IN  IF lookup(current_scope, assign.left.value, FALSE) = NoneVal
           THEN Throw(UnwrapNone)
           ELSE /\ BContinue(<<IVisit(assign.right)>>)
                /\ UNCHANGED current_scope

STB_visit_var ==
    /\ BVisiting("Var")
    /\ IF lookup(current_scope, Head(kont).node.value, FALSE) = NoneVal
       THEN Throw(UndeclaredVariable)
       ELSE /\ BContinue(<<>>)
            /\ UNCHANGED current_scope

STB_visit_program ==
    /\ BVisiting("Program")
    /\ BContinue(<<IVisit(Head(kont).node.block)>>)
    /\ UNCHANGED current_scope

STB_visit_block ==
    /\ BVisiting("Block")
    /\ LET block == Head(kont).node
       IN  BContinue(IVisitEach(block.declarations) \o <<IVisit(block.compound_statement)>>)
    /\ UNCHANGED current_scope

(* the type name is looked up as the declaration spells it *)
TypeKey(name) == name

(* visit_var_decl: the type symbol is looked up and unwrapped, and a Var   *)
(* symbol of the declared name is inserted                                 *)
STB_visit_var_decl ==
    /\ BVisiting("VarDecl")
    /\ LET var_decl == Head(kont).node
           type_symbol == lookup(current_scope, TypeKey(var_decl.type_node.value), FALSE)
       IN  IF type_symbol = NoneVal
           THEN Throw(UnwrapNone)
           ELSE /\ current_scope' =
                      insert(current_scope, VarSymbol(var_decl.var_node.value, type_symbol))
                /\ BContinue(<<>>)

STB_visit_procedure_decl ==
    /\ BVisiting("ProcedureDecl")
    /\ BContinue(<<>>)
    /\ UNCHANGED current_scope

STB_visit_procedure_call ==
    /\ BVisiting("ProcedureCall")
    /\ BContinue(<<>>)
    /\ UNCHANGED current_scope

(* PROGRAM Main; VAR declarations; procedures; BEGIN body END.  The type   *)
(* of a declaration is spelled INTEGER, REAL or integer: the lexer takes   *)
(* each as the keyword and keeps the spelling as the token's value.        *)
BuilderVarDecls ==
    {<<>>} \cup SeqsUpTo({VarDecl(n, t) : n \in {"x", "y"},
                                          t \in {"INTEGER", "REAL", "integer"}}, MaxDecls)
BuilderProcDecls ==
    { <<>>, <<ProcedureDecl("p", <<>>, Block(<<>>, <<NoOp>>))>> }
BuilderBodies ==
    { <<NoOp>>,
      <<Assign("x", BinOp(Num(IntegerV(2)), "Plus", Var("y")))>>,
      <<Assign("y", UnaryOp("Minus", Int5)), ProcedureCall("p", <<>>)>> }
BuilderTrees ==
    { Program("Main", Block(vars_ \o procs, body)) :
        vars_ \in BuilderVarDecls, procs \in BuilderProcDecls, body \in BuilderBodies }

InitBuilder ==
    /\ mode = "direct"
    /\ tree \in BuilderTrees
    /\ phase = "building"
    /\ kont = <<IVisit(tree)>>
    /\ current_scope = SymbolTable_new("global", 1, NoneVal)
    /\ call_stack = <<>>
    /\ error = "none"
    /\ hcalls = <<>>
    /\ result = NoneVal
    /\ overflow_checks = FALSE

NextBuilder ==
    \/ STB_visit_program
    \/ STB_visit_block
    \/ STB_visit_var_decl
    \/ STB_visit_procedure_decl
    \/ STB_visit_compound
    \/ STB_visit_noop
    \/ STB_visit_assign
    \/ STB_visit_var
    \/ STB_visit_num
    \/ STB_visit_bin_op
    \/ STB_visit_unary_op
    \/ STB_visit_procedure_call

SpecBuilder == InitBuilder /\ [][NextBuilder]_vars

(* the table before the first visit *)
NewTable == phase = "building" /\ kont = <<IVisit(tree)>>

(* the builtin type a declaration names, INTEGER or REAL in any spelling *)
BuiltinNamed(type_node) == [kind |-> "Builtin", name |-> to_uppercase(type_node.value)]

(* the table t2 is t1 and one Var symbol more, of the declaration's name   *)
(* and typed with the builtin the declaration names                        *)
OneVarAdded(t1, t2, var_decl) ==
    LET name == var_decl.var_node.value
    IN  /\ DOMAIN t2.symbols = DOMAIN t1.symbols \cup {name}
        /\ t2.symbols[name] =
               [kind |-> "Var", name |-> name, type_ |-> BuiltinNamed(var_decl.type_node)]
        /\ \A n \in DOMAIN t1.symbols \ {name} : t2.symbols[n] = t1.symbols[n]
        /\ t2.scope_name = t1.scope_name
        /\ t2.scope_level = t1.scope_level
        /\ t2.enclosing_scope = t1.enclosing_scope

(* C19: a new Symbol Table holds exactly the builtin symbols INTEGER and   *)
(* REAL, and the visit of each variable declaration adds exactly one Var   *)
(* symbol of the declared name, typed with the builtin the declaration     *)
(* names, and nothing else.                                                *)
C19_BuiltinsAndDeclaredVars ==
    /\ NewTable =>
          /\ DOMAIN current_scope.symbols = {"INTEGER", "REAL"}
          /\ \A n \in DOMAIN current_scope.symbols :
                current_scope.symbols[n] = [kind |-> "Builtin", name |-> n]
    /\ [][BVisiting("VarDecl") =>
             /\ phase' = "building"
             /\ OneVarAdded(current_scope, current_scope', Head(kont).node)]_vars

-----------------------------------------------------------------------------
(* SymbolTable::lookup on the tables the analyzer builds *)

(* the table and its enclosing tables, nearest first *)
RECURSIVE ScopeChain(_)
ScopeChain(table) ==
    IF table.enclosing_scope = NoneVal THEN <<table>>
    ELSE <<table>> \o ScopeChain(table.enclosing_scope)

(* the entry of the first table of the list that has the name *)
NearestEntry(tables, name) ==
    LET hits == {i \in 1..Len(tables) : name \in DOMAIN tables[i].symbols}
    IN  IF hits = {} THEN NoneVal
        ELSE tables[CHOOSE i \in hits : \A j \in hits : i <= j].symbols[name]

LookupNames == {"a", "A", "b", "x", "X", "p", "q", "INTEGER", "REAL", "integer"}

(* a is declared in the current table and, with another symbol, in an     *)
(* enclosing one                                                           *)
Shadowed(name) ==
    /\ current_scope.enclosing_scope # NoneVal
    /\ name \in DOMAIN current_scope.symbols
    /\ lookup(current_scope.enclosing_scope, name, FALSE) \notin
          {NoneVal, current_scope.symbols[name]}

(* C20: lookup returns the nearest declaration: the current table's entry  *)
(* when it has one; otherwise, when current_scope_only is false, the entry *)
(* of the closest enclosing table that has one; otherwise none.  With      *)
(* current_scope_only true it never returns a symbol of an enclosing table.*)
C20_LookupNearest ==
    \A name \in LookupNames :
        /\ lookup(current_scope, name, FALSE) = NearestEntry(ScopeChain(current_scope), name)
        /\ lookup(current_scope, name, TRUE) = NearestEntry(<<current_scope>>, name)
        /\ name \notin DOMAIN current_scope.symbols =>
               lookup(current_scope, name, TRUE) = NoneVal

(* the analyzer looks up a, b and p in the table of p, where a is declared *)
(* again, b and p only in the enclosing table                              *)
C20_Witness ==
    /\ AVisiting("Assign")
    /\ current_scope.scope_level = 2
    /\ Shadowed("a")
    /\ lookup(current_scope, "a", FALSE) = VarSymbol("a", BuiltinSymbol("REAL"))
    /\ lookup(current_scope, "b", TRUE) = NoneVal
    /\ lookup(current_scope, "b", FALSE) = VarSymbol("b", BuiltinSymbol("INTEGER"))
    /\ lookup(current_scope, "p", FALSE) # NoneVal

-----------------------------------------------------------------------------
(* symbols.rs: CallStack on its own.  Any sequence of push, pop and peek   *)
(* on a stack that starts empty; phase names the last call and result the  *)
(* Option it returned.                                                     *)

MaxDepth == 3

StackRecords ==
    { ActivationRecord_new("Main", "Program", 1),
      ActivationRecord_new("p", "Procedure", 2),
      ar_set(ActivationRecord_new("p", "Procedure", 2), "x", IntegerV(5)) }

CS_push ==
    /\ Len(call_stack) < MaxDepth
    /\ \E ar \in StackRecords : call_stack' = push(call_stack, ar)
    /\ phase' = "push"
    /\ result' = NoneVal
    /\ UNCHANGED <<mode, tree, kont, current_scope, error, hcalls, overflow_checks>>

(* Vec::pop: the last record is returned and removed, None on an empty Vec *)
CS_pop ==
    /\ result' = peek(call_stack)
    /\ call_stack' = pop(call_stack)
    /\ phase' = "pop"
    /\ UNCHANGED <<mode, tree, kont, current_scope, error, hcalls, overflow_checks>>

CS_peek ==
    /\ result' = peek(call_stack)
    /\ phase' = "peek"
    /\ UNCHANGED <<mode, tree, kont, current_scope, call_stack, error, hcalls,
                   overflow_checks>>

InitStack ==
    /\ mode = "direct"
    /\ tree = NoOp
    /\ phase = "new"
    /\ kont = <<>>
    /\ current_scope = SymbolTable_new("global", 1, NoneVal)
    /\ call_stack = <<>>
    /\ error = "none"
    /\ hcalls = <<>>
    /\ result = NoneVal
    /\ overflow_checks = FALSE

NextStack ==
    \/ CS_push
    \/ CS_pop
    \/ CS_peek

SpecStack == InitStack /\ [][NextStack]_vars

(* C21: the Call Stack is LIFO: a push puts its record on top of the       *)
(* records below, which stay; pop removes and returns the most recently    *)
(* pushed record not yet popped; peek returns that record and removes      *)
(* nothing; on an empty stack pop and peek return none and the stack stays *)
(* empty.                                                                  *)
C21_CallStackLIFO ==
    [][LET n == Len(call_stack)
       IN  /\ phase' = "push" =>
                 /\ Len(call_stack') = n + 1
                 /\ SubSeq(call_stack', 1, n) = call_stack
           /\ phase' = "pop" /\ n > 0 =>
                 /\ result' = call_stack[n]
                 /\ call_stack' = SubSeq(call_stack, 1, n - 1)
           /\ phase' = "peek" /\ n > 0 =>
                 /\ result' = call_stack[n]
                 /\ call_stack' = call_stack
           /\ phase' \in {"pop", "peek"} /\ n = 0 =>
                 /\ result' = NoneVal
                 /\ call_stack' = <<>>]_vars

(* two records pushed, the second popped and returned, the first on top *)
C21_Witness ==
    /\ phase = "pop"
    /\ result = ar_set(ActivationRecord_new("p", "Procedure", 2), "x", IntegerV(5))
    /\ call_stack = <<ActivationRecord_new("Main", "Program", 1)>>

-----------------------------------------------------------------------------
(* the errors of the analyzer *)

AnalysisErrors == {DuplicateID, IDNotFound, WrongParamsNum}

(* C22: every analysis error is fatal: the step that raises                *)
(* DuplicateIdentifier, IdentifierNotFound or ParameterCountMismatch       *)
(* inserts no symbol and annotates no call, and after it nothing happens:  *)
(* no symbol is inserted, no call node annotated, execution never starts.  *)
C22_AnalysisErrorsFatal ==
    [][/\ error \notin AnalysisErrors
       /\ error' \in AnalysisErrors =>
             /\ phase = "analysis"
             /\ phase' = "aborted"
             /\ current_scope' = current_scope
             /\ tree' = tree
             /\ call_stack' = call_stack
             /\ kont' = kont]_vars

(* a duplicate declaration was met with declarations and statements still *)
(* to visit                                                                *)
C22_Witness ==
    /\ phase = "aborted"
    /\ error = DuplicateID
    /\ Len(kont) > 1
    /\ call_stack = <<>>

-----------------------------------------------------------------------------
(* the binding of arguments in visit_procedure_call *)

(* the step pushes the record of the call at the head of kont *)
CallPushes ==
    /\ IVisiting("ProcedureCall")
    /\ Len(call_stack') = Len(call_stack) + 1

(* C23: in a procedure call every actual argument is evaluated in the      *)
(* caller's frame, before the callee's frame is pushed, and the i-th value *)
(* is bound to the name of the i-th formal parameter in the new frame,     *)
(* which holds no other binding when it is pushed.                         *)
C23_ArgumentsBoundInOrder ==
    [][CallPushes =>
          LET call == Head(kont).node
              formal_params == call.proc_symbol.formal_params
              frame == call_stack'[Len(call_stack')]
          IN  /\ Len(formal_params) = Len(call.actual_params)
              /\ SubSeq(call_stack', 1, Len(call_stack)) = call_stack
              /\ DOMAIN frame.members =
                     {formal_params[i].name : i \in 1..Len(formal_params)}
              /\ \A i \in 1..Len(formal_params) :
                     frame.members[formal_params[i].name] =
                        ValueOf(call.actual_params[i], call_stack)]_vars

-----------------------------------------------------------------------------
(* reads of outer variables in a procedure *)

(* the names the statement at the head of kont reads that are neither a   *)
(* formal parameter nor a local variable of the procedure executing: the   *)
(* analyzer resolved them in an enclosing scope                            *)
OuterReads ==
    UNION {ExecutedVars(e, call_stack) : e \in ExecutedExprs} \ LocalNames

(* a statement of a procedure of an analysed program is about to execute  *)
InProcedure == ExecutingAnalysed /\ hcalls # <<>>

(* As stated: a procedure that reads a variable of an enclosing scope that *)
(* was not passed to it as a parameter passes static analysis but fails at *)
(* run time.                                                               *)
C24_OuterReadFails ==
    [][InProcedure /\ OuterReads # {} => phase' = "aborted"]_vars

(* C24: a procedure that reads a variable of an enclosing scope that was   *)
(* not passed to it as a parameter passes static analysis; reads consult   *)
(* only the top-of-stack record, so the read fails at run time unless the  *)
(* procedure's own record holds a binding of that name from an assignment  *)
(* made earlier in the same call.                                          *)
C24_OuterReadTopRecordOnly ==
    [][InProcedure /\ OuterReads # {} =>
          IF \E name \in OuterReads :
                 VarReadKey(name) \notin DOMAIN peek(call_stack).members
          THEN phase' = "aborted"
          ELSE \A e \in ExecutedExprs :
                  ValueOf(e, call_stack) =
                     ValueOf(e, <<peek(call_stack)>>)]_vars

(* x := a failed in p although the Program record below binds a *)
C24_Witness ==
    /\ mode = "pipeline"
    /\ phase = "aborted"
    /\ error = "unwrap on None: get"
    /\ Len(call_stack) = 2
    /\ Head(kont) = IVisit(Assign("x", Var("a")))
    /\ "a" \in DOMAIN call_stack[1].members
    /\ "a" \notin DOMAIN call_stack[2].members

-----------------------------------------------------------------------------
(* inserts of the analyzer *)

(* the formal parameters of the declaration name some name twice *)
RepeatsParam(decl) ==
    \E i, j \in 1..Len(decl.formal_params) :
        /\ i < j
        /\ decl.formal_params[i].var_node.value = decl.formal_params[j].var_node.value

Rejected == phase' = "aborted" /\ error' = DuplicateID

(* C25: names within one Symbol Table are unique: during analysis no       *)
(* insert overwrites an existing entry of the table it inserts into,       *)
(* whether the new symbol is a variable, a formal parameter or a           *)
(* procedure; the redeclaration is rejected with DuplicateIdentifier.      *)
C25_NoInsertOverwrites ==
    [][/\ AVisiting("VarDecl") /\ AtNode.var_node.value \in DOMAIN current_scope.symbols
             => Rejected
       /\ AVisiting("ProcedureDecl") /\ AtNode.proc_name \in DOMAIN current_scope.symbols
             => Rejected
       /\ AVisiting("ProcedureDecl") /\ RepeatsParam(AtNode)
             => Rejected]_vars

-----------------------------------------------------------------------------
(* the scopes around a procedure declaration *)

(* table t2 is table t1 with the Procedure symbol of the declaration put   *)
(* under its name and nothing else changed: no formal parameter and no     *)
(* local of the procedure is in it                                         *)
PlusProcedure(t1, t2, decl) ==
    /\ DOMAIN t2.symbols = DOMAIN t1.symbols \cup {decl.proc_name}
    /\ \A n \in DOMAIN t1.symbols \ {decl.proc_name} : t2.symbols[n] = t1.symbols[n]
    /\ t2.symbols[decl.proc_name].kind = "Procedure"
    /\ t2.symbols[decl.proc_name].name = decl.proc_name
    /\ [i \in 1..Len(decl.formal_params) |->
           t2.symbols[decl.proc_name].formal_params[i].name] =
       [i \in 1..Len(decl.formal_params) |-> decl.formal_params[i].var_node.value]
    /\ t2.scope_name = t1.scope_name
    /\ t2.scope_level = t1.scope_level
    /\ t2.enclosing_scope = t1.enclosing_scope

(* the names declared by the procedures of the program's block and not by *)
(* the block itself                                                        *)
ProcedureOnlyNames ==
    UNION {DeclNames(d) : d \in {c \in Range(tree.block.declarations) : c.k = "ProcedureDecl"}}
    \ VarDeclNames(tree.block)

(* C26: after the analysis of a procedure declaration the current scope is *)
(* again the enclosing table, equal to what it was before the declaration  *)
(* plus exactly the new Procedure symbol: entering the declaration puts    *)
(* the symbol in the enclosing table, no step inside the declaration       *)
(* touches the enclosing table, leaving makes it current; and a program    *)
(* whose main body refers to a formal parameter or local of a procedure    *)
(* is not accepted.                                                        *)
C26_EnclosingScopeRestored ==
    /\ []((mode = "pipeline" /\ tree.k = "Program"
             /\ RefNames(tree.block.compound_statement) \cap ProcedureOnlyNames # {})
            => (~Analyzed /\ phase # "execution"))
    /\ [][phase = "analysis" /\ phase' = "analysis" =>
             IF AVisiting("ProcedureDecl")
             THEN PlusProcedure(current_scope, current_scope'.enclosing_scope, AtNode)
             ELSE IF AResting("leave_procedure")
             THEN current_scope' = current_scope.enclosing_scope
             ELSE IF AVisiting("Program") \/ AResting("leave_program") THEN TRUE
             ELSE current_scope'.enclosing_scope = current_scope.enclosing_scope]_vars

-----------------------------------------------------------------------------
(* C27: every Symbol Table that is the analyzer's current scope has a      *)
(* static nesting level of at least 1, in every state from the start of    *)
(* analysis to after the program scope is left, and the table created on   *)
(* entering a Program or Procedure body has the level of its parent plus 1.*)
C27_LevelsAtLeastOne ==
    /\ [](mode = "pipeline" /\ phase = "analysis" => current_scope.scope_level >= 1)
    /\ [][(/\ phase' = "analysis"
            /\ (AVisiting("Program") \/ AVisiting("ProcedureDecl"))
            /\ current_scope'.enclosing_scope # NoneVal)
           => current_scope'.scope_level = current_scope'.enclosing_scope.scope_level + 1]_vars

-----------------------------------------------------------------------------
(* the exact sum, difference or product of two integers *)
ExactArith(op, a, b) ==
    CASE op = "Plus" -> a + b
      [] op = "Minus" -> a - b
      [] op = "Mul" -> a * b

(* C28: for Integer operands a and b, a + b, a - b and a * b return        *)
(* Integer(r) with r the exact result whenever r is in the 32-bit signed   *)
(* range; no operand or result is altered on the way.                      *)
C28_IntegerArithmeticExact ==
    (/\ BinOpOn("Integer", "Integer")
     /\ tree.op \in {"Plus", "Minus", "Mul"}
     /\ ExactArith(tree.op, LeftValue.v, RightValue.v) \in I32Min..I32Max) =>
        /\ ~Panicked
        /\ Returned => result = IntegerV(ExactArith(tree.op, LeftValue.v, RightValue.v))

-----------------------------------------------------------------------------
(* division by zero in a statement *)

(* the evaluation of the expression reaches a DIV whose operands are       *)
(* Integers, the right one 0                                               *)
RECURSIVE DividesByZero(_, _)
DividesByZero(node, records) ==
    CASE node.k = "BinOp" ->
            LET lv == ValueOf(node.left, records)
                rv == ValueOf(node.right, records)
            IN  \/ DividesByZero(node.left, records)
                \/ ~IsPanic(OperandAsF32(lv)) /\ DividesByZero(node.right, records)
                \/ /\ node.op = "IntegerDiv"
                   /\ ~IsPanic(lv) /\ ~IsPanic(rv)
                   /\ lv.kind = "Integer"
                   /\ rv = IntegerV(0)
      [] node.k = "UnaryOp" -> DividesByZero(node.expr, records)
      [] OTHER -> FALSE

(* an expression of the language: numbers, variables and the operators on  *)
(* them, as Parser::expr builds it                                         *)
RECURSIVE ExpressionTree(_)
ExpressionTree(node) ==
    CASE node.k \in {"Num", "Var"} -> TRUE
      [] node.k = "BinOp" -> ExpressionTree(node.left) /\ ExpressionTree(node.right)
      [] node.k = "UnaryOp" -> ExpressionTree(node.expr)
      [] OTHER -> FALSE

(* the call stack and the outcome of the arguments of the call before the  *)
(* i-th, evaluated in order                                                *)
ArgumentsBefore(call, i) ==
    VisitEach(SubSeq(call.actual_params, 1, i - 1), call_stack, hcalls)

(* the statement at the head of kont is an assignment whose right-hand     *)
(* side, or a call one of whose arguments, divides by zero when it is      *)
(* evaluated; or it is such an expression itself, standing as a statement  *)
DividingStatement ==
    /\ phase = "execution"
    /\ kont # <<>>
    /\ Head(kont).v = "visit"
    /\ LET node == Head(kont).node
       IN  CASE node.k = "Assign" -> DividesByZero(node.right, call_stack)
             [] node.k = "ProcedureCall" /\ node.proc_symbol # NoneVal ->
                    \E i \in 1..Min(Len(node.proc_symbol.formal_params),
                                    Len(node.actual_params)) :
                        /\ ~IsPanic(ArgumentsBefore(node, i).value)
                        /\ DividesByZero(node.actual_params[i],
                                         ArgumentsBefore(node, i).records)
             [] IsExpression(node) -> DividesByZero(node, call_stack)
             [] OTHER -> FALSE

(* C29: Integer DIV with a right operand of 0 aborts the run as a fatal    *)
(* error: it yields no value, and the statement that contains it sets no   *)
(* binding of any frame and pushes no frame, when the right-hand side or   *)
(* the arguments it evaluates are expressions of the language.             *)
C29_DivByZeroFatal ==
    [][(/\ DividingStatement
        /\ \A e \in ExecutedExprs : ExpressionTree(e))
       => /\ phase' = "aborted"
          /\ error' = "attempt to divide by zero"
          /\ call_stack' = call_stack
          /\ result' = result]_vars

(* a := a DIV 0 has aborted the run with a still bound to 5 *)
C29_Witness ==
    /\ mode = "pipeline"
    /\ phase = "aborted"
    /\ error = "attempt to divide by zero"
    /\ Head(kont) = IVisit(Assign("a", BinOp(Var("a"), "IntegerDiv", Num(IntegerV(0)))))
    /\ Len(call_stack) = 1
    /\ call_stack[1].members = [n \in {"a"} |-> IntegerV(5)]

-----------------------------------------------------------------------------
(* Termination.  The analyzer and the interpreter are one sequential       *)
(* program: a visit that can take its next step takes it.                  *)

(* the analyzer is given the tree of a program, the interpreter the tree   *)
(* the analyzer accepted                                                   *)
InitLive == Init /\ mode = "pipeline"

SpecLive == InitLive /\ [][Next]_vars /\ WF_vars(Next)

(* the procedure declarations of a tree, nested ones included *)
RECURSIVE ProcDecls(_)
ProcDecls(n) ==
    CASE n.k = "Program" -> ProcDecls(n.block)
      [] n.k = "Block" -> UNION {ProcDecls(c) : c \in Range(n.declarations)}
      [] n.k = "ProcedureDecl" -> {n} \cup ProcDecls(n.block_node)
      [] OTHER -> {}

(* the procedures a statement calls *)
RECURSIVE CallNames(_)
CallNames(n) ==
    CASE n.k = "ProcedureCall" -> {n.proc_name}
      [] n.k = "Compound" -> UNION {CallNames(c) : c \in Range(n.children)}
      [] OTHER -> {}

(* p calls q: the body of a procedure named p holds a call of q *)
CallsDirectly(t) ==
    UNION {{<<d.proc_name, c>> : c \in CallNames(d.block_node.compound_statement)} :
              d \in ProcDecls(t)}

(* some procedure calls itself, directly or through the other *)
Recursive(t) ==
    LET calls == CallsDirectly(t)
    IN  \/ \E e \in calls : e[1] = e[2]
        \/ \E e, f \in calls : e[2] = f[1] /\ f[2] = e[1]

(* the main body calls a procedure whose body calls itself *)
CallsSelfCalling(t) ==
    \E c \in CallNames(t.block.compound_statement) : <<c, c>> \in CallsDirectly(t)

NoProcedureFrame == \A i \in 1..Len(call_stack) : call_stack[i].type_ # "Procedure"

(* C30: the execution of an analysed program whose procedures never call   *)
(* themselves, directly or through other procedures, eventually finishes   *)
(* with every Procedure frame popped again; a program whose main body      *)
(* calls a procedure that calls itself unconditionally never finishes: it  *)
(* is executed and the run neither returns nor stops.                      *)
C30_Termination ==
    /\ (mode = "pipeline" /\ phase = "execution" /\ ~Recursive(tree))
          ~> (Executed /\ NoProcedureFrame)
    /\ (mode = "pipeline" /\ CallsSelfCalling(tree) /\ phase = "analysis" /\ kont # <<>>)
          ~> (phase = "execution")
    /\ [](mode = "pipeline" /\ CallsSelfCalling(tree) => ~Executed /\ phase # "aborted")

=============================================================================
